---- MODULE Spec2Model ----
(***************************************************************************)
(* A model of the money-muling detection pipeline of the financial         *)
(* forensic engine: buildGraph, detectSmurfing, detectCycles35,            *)
(* detectShellChains, mergeRings, applyWinModeScoring and                  *)
(* buildDeterministicOutput, as wired by the POST handler of               *)
(* /api/analyze.                                                           *)
(*                                                                         *)
(* Numbers.  Risks and scores are kept in tenths (99.3 is 993): every      *)
(* risk the detectors produce is a multiple of 0.1.  Timestamps are epoch  *)
(* seconds.  Account ids are strings; where the code builds a key by       *)
(* joining ids with a separator the model builds the same character        *)
(* sequence, so two different lists of ids can give the same key exactly   *)
(* when they do in the code.  A JavaScript Set or Map is modelled by a     *)
(* sequence without repetitions (its iteration order is insertion order).  *)
(***************************************************************************)
EXTENDS Integers, Sequences, FiniteSets, TLC

VARIABLES
    txs,            \* the parsed transaction sequence (parseCsvStrict's result)
    pc,             \* the handler's position in the pipeline
    g,              \* the graph built by buildGraph
    smurf,          \* detectSmurfing's result {rings, evidenceByAccount}
    cycles,         \* detectCycles35's result
    shells,         \* detectShellChains' result
    rings,          \* the ring list: concatenated, then merged
    evidence,       \* the merged evidenceByAccount
    accountScores,  \* the per-account score state
    out,            \* the output document
    prevOut,        \* the output document of the previous request, or NoDoc
    runs            \* requests handled for this input so far

vars == <<txs, pc, g, smurf, cycles, shells, rings, evidence, accountScores,
          out, prevOut, runs>>

(***************************************************************************)
(* Strings                                                                 *)
(***************************************************************************)
Upper == <<"A","B","C","D","E","F","G","H","I","J","K","L","M",
           "N","O","P","Q","R","S","T","U","V","W","X","Y","Z">>
Lower == <<"a","b","c","d","e","f","g","h","i","j","k","l","m",
           "n","o","p","q","r","s","t","u","v","w","x","y","z">>

Digit == <<"0","1","2","3","4","5","6","7","8","9">>

\* UTF-16 code unit of a one-character string (String.prototype.charCodeAt).
CodeUnit ==
    [ch \in {Upper[i] : i \in 1..26} |-> 64 + (CHOOSE i \in 1..26 : Upper[i] = ch)]
    @@ [ch \in {Lower[i] : i \in 1..26} |-> 96 + (CHOOSE i \in 1..26 : Lower[i] = ch)]
    @@ [ch \in {Digit[i] : i \in 1..10} |-> 47 + (CHOOSE i \in 1..10 : Digit[i] = ch)]
    @@ ("|" :> 124) @@ ("_" :> 95) @@ ("-" :> 45) @@ (">" :> 62) @@ ("," :> 44)

\* The characters of an account id.  Ids are one letter, except the ids
\* "B|C" and "A|B", which hold the separator the cycle and edge keys are
\* joined with, and the id "B,C", which holds the separator of the ring
\* signature (a quoted CSV field may hold a comma).
Chars(id) ==
    IF id = "B|C" THEN <<"B", "|", "C">>
    ELSE IF id = "A|B" THEN <<"A", "|", "B">>
    ELSE IF id = "B,C" THEN <<"B", ",", "C">>
    ELSE <<id>>

\* s < t on strings (sequences of characters), by code unit, as JavaScript's
\* <: at the first position where they differ s ends or has the smaller unit.
StrLess(s, t) ==
    \E i \in 1..Len(t) :
        /\ i - 1 <= Len(s)
        /\ \A j \in 1..(i - 1) : s[j] = t[j]
        /\ (i > Len(s) \/ CodeUnit[s[i]] < CodeUnit[t[i]])

IdLess(a, b) == StrLess(Chars(a), Chars(b))

RECURSIVE Join(_, _)
\* Array.prototype.join: the ids' characters with sep between them.
Join(ids, sep) ==
    IF ids = <<>> THEN <<>>
    ELSE IF Len(ids) = 1 THEN Chars(ids[1])
    ELSE Join(SubSeq(ids, 1, Len(ids) \div 2), sep) \o sep
         \o Join(SubSeq(ids, (Len(ids) \div 2) + 1, Len(ids)), sep)

Range(s) == {s[i] : i \in DOMAIN s}

\* An array with the elements f[1], ..., f[n], each computed once, when the
\* array is built.
Array(f) == f \o <<>>

\* The elements of S in ascending rank, rank[x] being the number of elements
\* that sort before x.
ByRank(S, rank) ==
    Array([k \in 1..Cardinality(S) |-> CHOOSE x \in S : rank[x] = k - 1])

\* [...set].sort(): a set of ids in ascending code-unit order.
SortIds(S) ==
    ByRank(S, [x \in S |-> Cardinality({y \in S : IdLess(y, x)})])

\* TRUE, with x evaluated: the state of a loop is computed before the next
\* iteration is entered, not when the last one reads it.
Evaluated(x) == x = x

\* Map.prototype.get with a default for a missing key.
MapGet(m, k, dflt) == IF k \in DOMAIN m THEN m[k] ELSE dflt

Min2(a, b) == IF a < b THEN a ELSE b
Max2(a, b) == IF a > b THEN a ELSE b

\* The number itself, not clamped.
Unclamped(n) == n

\* clamp(n, 0, 100), in tenths.
clamp(n) == Max2(0, Min2(1000, n))

(***************************************************************************)
(* buildGraph                                                              *)
(***************************************************************************)
edgeKey(a, b) == Chars(a) \o <<"|">> \o Chars(b)

\* The k-th smallest element of a set of integers.
Nth(S, k) == CHOOSE i \in S : Cardinality({j \in S : j < i}) = k - 1

\* The elements of xs with their repetitions.
AllOccurrences(xs) == xs

\* The elements of xs without repetitions, in the order of their first
\* occurrence: what iterating a Set gives after its elements were added in
\* the order of xs, and what uniqPreserveOrder returns.
FirstOccurrences(xs) ==
    Array([k \in 1..Cardinality({xs[i] : i \in DOMAIN xs}) |->
              xs[Nth({i \in DOMAIN xs : \A j \in 1..(i - 1) : xs[j] # xs[i]}, k)]])

\* arr.sort((a, b) => a.t - b.t): a stable ascending sort by timestamp.
SortByT(arr) ==
    [k \in DOMAIN arr |->
        arr[CHOOSE i \in DOMAIN arr :
              Cardinality({j \in DOMAIN arr :
                              \/ arr[j].t < arr[i].t
                              \/ (arr[j].t = arr[i].t /\ j < i)}) = k - 1]]

\* The subsequence of list at the positions in idx.
Pick(list, idx) == [k \in 1..Cardinality(idx) |-> list[Nth(idx, k)]]

TxsFrom(list, n) == Pick(list, {i \in DOMAIN list : list[i].sender_id = n})
TxsTo(list, n) == Pick(list, {i \in DOMAIN list : list[i].receiver_id = n})
TxsOn(list, key) ==
    Pick(list, {i \in DOMAIN list :
                   edgeKey(list[i].sender_id, list[i].receiver_id) = key})

\* nodes.add(tx.sender_id); nodes.add(tx.receiver_id) for each transaction.
Endpoints(list) ==
    [k \in 1..(2 * Len(list)) |->
        IF k % 2 = 1 THEN list[(k + 1) \div 2].sender_id
        ELSE list[k \div 2].receiver_id]

\* buildGraph: what its loop over the transactions leaves in each
\* collection, then the three sorts.  A map has the keys that were set.
buildGraph(list) ==
    LET senders   == {list[i].sender_id : i \in DOMAIN list}
        receivers == {list[i].receiver_id : i \in DOMAIN list}
        keys      == {edgeKey(list[i].sender_id, list[i].receiver_id) :
                         i \in DOMAIN list}
    IN [nodes        |-> FirstOccurrences(Endpoints(list)),
        txOut        |-> [n \in senders |-> SortByT(TxsFrom(list, n))],
        txIn         |-> [n \in receivers |-> SortByT(TxsTo(list, n))],
        outNeighbors |-> [n \in senders |->
                            LET o == TxsFrom(list, n)
                            IN FirstOccurrences([i \in DOMAIN o |-> o[i].receiver_id])],
        inNeighbors  |-> [n \in receivers |->
                            LET o == TxsTo(list, n)
                            IN FirstOccurrences([i \in DOMAIN o |-> o[i].sender_id])],
        edgeTx       |-> [k \in keys |-> SortByT(TxsOn(list, k))],
        degreeTotal  |-> [n \in senders \cup receivers |->
                            Cardinality({i \in DOMAIN list : list[i].sender_id = n})
                            + Cardinality({i \in DOMAIN list : list[i].receiver_id = n})]]

EmptyGraph == buildGraph(<<>>)

MapInc(m, k) == IF k \in DOMAIN m THEN [m EXCEPT ![k] = @ + 1] ELSE m @@ (k :> 1)

\* The evidence map, as the set of (account, tag) pairs it holds.
EvGet(ev, a) == {e[2] : e \in {x \in ev : x[1] = a}}

NoResult == [rings |-> <<>>, evidenceByAccount |-> {}]

(***************************************************************************)
(* detectCycles35                                                          *)
(***************************************************************************)
Rotate(nodes, s) == SubSeq(nodes, s + 1, Len(nodes)) \o SubSeq(nodes, 1, s)

RECURSIVE CanonFrom(_, _, _)
CanonFrom(nodes, s, best) ==
    IF s >= Len(nodes) THEN best
    ELSE LET rot == Rotate(nodes, s)
         IN CanonFrom(nodes, s + 1,
                      IF StrLess(Join(rot, <<"|">>), Join(best, <<"|">>))
                      THEN rot ELSE best)

canonicalCycle(nodes) == CanonFrom(nodes, 1, nodes)

cycleRisk(len, spanSeconds) ==
    LET base  == IF len = 3 THEN 893 ELSE IF len = 4 THEN 877 ELSE 850
        bonus == IF spanSeconds <= 3600 THEN 100
                 ELSE IF spanSeconds <= 6 * 3600 THEN 60
                 ELSE IF spanSeconds <= 24 * 3600 THEN 30 ELSE 0
    IN clamp(base + bonus)

RECURSIVE SpanFold(_, _, _, _)
\* minT and maxT over the edges path[i] -> path[i+1] for i in from..Len(path)-1,
\* and, with closed, the edge from the last node back to the first.
\* fin is FALSE while minT is still Number.POSITIVE_INFINITY.
SpanFold(gr, edges, i, acc) ==
    IF i > Len(edges) THEN acc
    ELSE LET arr == MapGet(gr.edgeTx, edgeKey(edges[i][1], edges[i][2]), <<>>)
         IN SpanFold(gr, edges, i + 1,
                IF arr = <<>> THEN acc
                ELSE [fin  |-> TRUE,
                      minT |-> IF acc.fin THEN Min2(acc.minT, arr[1].t) ELSE arr[1].t,
                      maxT |-> Max2(acc.maxT, arr[Len(arr)].t)])

CycleEdges(cyc) ==
    [i \in 1..Len(cyc) |-> <<cyc[i], cyc[(i % Len(cyc)) + 1]>>]

SpanOf(gr, edges) ==
    LET acc == SpanFold(gr, edges, 1, [fin |-> FALSE, minT |-> 0, maxT |-> 0])
    IN IF acc.fin THEN Max2(0, acc.maxT - acc.minT) ELSE 0

\* Lines 59-86 of detectCycles35 for the canonical cycle cyc.
CycleEmitCanon(gr, cyc, acc) ==
    LET key == Join(cyc, <<"|">>)
        pat == IF Len(cyc) = 3 THEN "cycle_length_3"
               ELSE IF Len(cyc) = 4 THEN "cycle_length_4" ELSE "cycle_length_5"
    IN IF key \in acc.seen THEN acc
       ELSE [seen  |-> acc.seen \cup {key},
             rings |-> Append(acc.rings,
                         [pattern_type    |-> "cycle",
                          member_accounts |-> SortIds(Range(cyc)),
                          risk_score      |-> cycleRisk(Len(cyc),
                                                 SpanOf(gr, CycleEdges(cyc)))]),
             evidenceByAccount |->
                 acc.evidenceByAccount
                 \cup {<<a, pat>> : a \in Range(cyc)}
                 \cup {<<a, "cycle">> : a \in Range(cyc)}]

\* The cycle found at path: lines 58-86 of detectCycles35.
CycleEmit(gr, path, acc) == CycleEmitCanon(gr, canonicalCycle(path), acc)

\* idx.get(v) of detectCycles35.
IdxOf(sorted, v) == CHOOSE i \in DOMAIN sorted : sorted[i] = v

RECURSIVE CycleDfs(_, _, _, _, _, _)
\* dfs(u, depth) of detectCycles35, from the neighbour at position k of u's
\* out-neighbours on; path ends with u and visited is the set of its nodes.
CycleDfs(gr, sorted, path, depth, k, acc) ==
    LET u     == path[Len(path)]
        start == path[1]
        nbrs  == MapGet(gr.outNeighbors, u, <<>>)
    IN IF Evaluated(acc) /\ (depth > 5 \/ k > Len(nbrs)) THEN acc
       ELSE LET v  == nbrs[k]
                a1 == IF IdxOf(sorted, v) < IdxOf(sorted, start) THEN acc
                      ELSE IF v = start
                           THEN IF depth >= 3 /\ depth <= 5
                                THEN CycleEmit(gr, path, acc) ELSE acc
                      ELSE IF v \in Range(path) THEN acc
                      ELSE CycleDfs(gr, sorted, Append(path, v), depth + 1, 1, acc)
            IN CycleDfs(gr, sorted, path, depth, k + 1, a1)

RECURSIVE CycleStarts(_, _, _, _)
CycleStarts(gr, sorted, i, acc) ==
    IF Evaluated(acc) /\ i > Len(sorted) THEN acc
    ELSE CycleStarts(gr, sorted, i + 1,
                     CycleDfs(gr, sorted, <<sorted[i]>>, 1, 1, acc))

\* What a detector returns: its rings and its evidence map.
Returned(acc) == [rings |-> acc.rings, evidenceByAccount |-> acc.evidenceByAccount]

detectCycles35(gr) ==
    Returned(CycleStarts(gr, SortIds(Range(gr.nodes)), 1,
                         [seen |-> {}, rings |-> <<>>, evidenceByAccount |-> {}]))

(***************************************************************************)
(* detectShellChains                                                       *)
(***************************************************************************)
MAX_DEPTH == 6
MAX_PATHS_PER_START == 25

\* The characters of a pattern type.
PatternChars(p) ==
    CASE p = "cycle" -> <<"c","y","c","l","e">>
      [] p = "smurfing" -> <<"s","m","u","r","f","i","n","g">>
      [] p = "layered_shell" ->
            <<"l","a","y","e","r","e","d","_","s","h","e","l","l">>

chainRisk(hops, spanSeconds) ==
    LET base  == 780 + 35 * (hops - 3)
        bonus == IF spanSeconds <= 2 * 3600 THEN 100
                 ELSE IF spanSeconds <= 12 * 3600 THEN 60
                 ELSE IF spanSeconds <= 48 * 3600 THEN 30 ELSE 0
    IN clamp(base + bonus)

\* amts.sort((x, y) => x - y)
SortNums(a) ==
    [k \in DOMAIN a |->
        a[CHOOSE i \in DOMAIN a :
            Cardinality({j \in DOMAIN a : a[j] < a[i] \/ (a[j] = a[i] /\ j < i)})
            = k - 1]]

\* Twice the median of the sorted numbers a.
MedianOfSorted2(a) ==
    IF Len(a) % 2 = 1 THEN 2 * a[(Len(a) \div 2) + 1]
    ELSE a[Len(a) \div 2] + a[(Len(a) \div 2) + 1]

\* Twice the median of nums (the median of an even count is a half-sum), 0
\* for no numbers.
median2(nums) == IF nums = <<>> THEN 0 ELSE MedianOfSorted2(SortNums(nums))

\* Twice edgeMedianAmount(graph, a, b).
edgeMedianAmount2(gr, a, b) ==
    LET arr == MapGet(gr.edgeTx, edgeKey(a, b), <<>>)
    IN median2([i \in DOMAIN arr |-> arr[i].amount])

\* The low-activity set: lines 36-40.
LowSet(gr) == {n \in DOMAIN gr.degreeTotal :
                  gr.degreeTotal[n] >= 2 /\ gr.degreeTotal[n] <= 3}

InDeg(gr, n) == Len(MapGet(gr.inNeighbors, n, <<>>))
OutDeg(gr, n) == Len(MapGet(gr.outNeighbors, n, <<>>))

\* The intermediates only have to be in the low-activity set.
IntermediatesLow(gr, path) ==
    \A i \in 2..(Len(path) - 1) : path[i] \in LowSet(gr)

\* Lines 73-80: every intermediate is low-activity with one in- and one
\* out-neighbour.
IntermediatesOk(gr, path) ==
    \A i \in 2..(Len(path) - 1) :
        /\ path[i] \in LowSet(gr)
        /\ InDeg(gr, path[i]) = 1
        /\ OutDeg(gr, path[i]) = 1

RECURSIVE ChainWalk(_, _, _, _, _, _)
\* Lines 90-117: the walk over the edges path[i] -> path[i+1]; prev is FALSE
\* while prevEdgeT and prevAmt are null.  Amounts are doubled medians.
ChainWalk(gr, path, i, prev, prevEdgeT, prevAmt) ==
    IF i > Len(path) - 1 THEN TRUE
    ELSE LET arr   == MapGet(gr.edgeTx, edgeKey(path[i], path[i + 1]), <<>>)
             edgeT == arr[1].t
             amt   == edgeMedianAmount2(gr, path[i], path[i + 1])
             gap   == IF edgeT >= prevEdgeT THEN edgeT - prevEdgeT
                      ELSE prevEdgeT - edgeT
         IN IF arr = <<>> THEN FALSE
            ELSE IF prev /\ edgeT + 3600 < prevEdgeT THEN FALSE
            ELSE IF prev /\ gap > 24 * 3600 THEN FALSE
            ELSE IF prev /\ amt > 0 /\ prevAmt > 0
                    /\ 100 * Max2(amt, prevAmt) > 135 * Min2(amt, prevAmt)
                 THEN FALSE
            ELSE ChainWalk(gr, path, i + 1, TRUE, edgeT, amt)

PathEdges(path) == [i \in 1..(Len(path) - 1) |-> <<path[i], path[i + 1]>>]

\* `layered_shell|${path.join("->")}`
ChainSig(path) ==
    PatternChars("layered_shell") \o <<"|">> \o Join(path, <<"-", ">">>)

\* Lines 71-153: the test and the emission for the path just extended.
ChainEmit(gr, path, nextDepth, acc) ==
    IF nextDepth >= 3 /\ IntermediatesOk(gr, path)
       /\ ChainWalk(gr, path, 1, FALSE, 0, 0)
       /\ ChainSig(path) \notin acc.seen
    THEN LET n == Len(path)
         IN [seen  |-> acc.seen \cup {ChainSig(path)},
             found |-> acc.found + 1,
             rings |-> Append(acc.rings,
                         [pattern_type    |-> "layered_shell",
                          member_accounts |-> path,
                          risk_score      |-> chainRisk(nextDepth,
                                                 SpanOf(gr, PathEdges(path)))]),
             evidenceByAccount |->
                 acc.evidenceByAccount
                 \cup {<<path[1], "layered_shell_chain">>, <<path[1], "source_funds">>}
                 \cup {<<path[i], "layered_shell_chain">> : i \in 2..(n - 2)}
                 \cup {<<path[i], "low_activity_shell">> : i \in 2..(n - 2)}
                 \cup {<<path[n - 1], "layered_shell_chain">>, <<path[n - 1], "pre_cashout">>}
                 \cup {<<path[n], "layered_shell_chain">>, <<path[n], "cash_out">>}]
    ELSE acc

RECURSIVE ChainDfs(_, _, _, _, _)
\* dfs(u, depthEdges) of detectShellChains from the neighbour at position k
\* on; path ends with u.
ChainDfs(gr, path, depthEdges, k, acc) ==
    LET u    == path[Len(path)]
        nbrs == MapGet(gr.outNeighbors, u, <<>>)
    IN IF acc.found >= MAX_PATHS_PER_START \/ depthEdges > MAX_DEPTH
          \/ k > Len(nbrs)
       THEN acc
       ELSE LET v         == nbrs[k]
                nextDepth == depthEdges + 1
                a1 == IF v \in Range(path) THEN acc
                      ELSE IF nextDepth < 2 /\ v \notin LowSet(gr) THEN acc
                      ELSE LET p2 == Append(path, v)
                           IN ChainDfs(gr, p2, nextDepth, 1,
                                       ChainEmit(gr, p2, nextDepth, acc))
            IN ChainDfs(gr, path, depthEdges, k + 1, a1)

RECURSIVE ChainStarts(_, _, _, _)
ChainStarts(gr, sorted, i, acc) ==
    IF Evaluated(acc) /\ i > Len(sorted) THEN acc
    ELSE ChainStarts(gr, sorted, i + 1,
                     ChainDfs(gr, <<sorted[i]>>, 0, 1, [acc EXCEPT !.found = 0]))

detectShellChains(gr) ==
    Returned(ChainStarts(gr, SortIds(Range(gr.nodes)), 1,
                 [seen |-> {}, found |-> 0, rings |-> <<>>, evidenceByAccount |-> {}]))

(***************************************************************************)
(* detectSmurfing                                                          *)
(***************************************************************************)
WINDOW_SEC == 72 * 3600
MIN_UNIQUE == 10

\* The amounts within the band around the median, med2 being twice the
\* median: |x - med| <= max(1, med * 0.08), scaled by 200.
CloseCount(amounts, med2) ==
    Cardinality({i \in DOMAIN amounts :
        100 * (IF 2 * amounts[i] >= med2 THEN 2 * amounts[i] - med2
               ELSE med2 - 2 * amounts[i])
        <= Max2(200, 8 * med2)})

\* amountConsistency(amounts, 0.08) as the fraction <<close, length>>;
\* <<0, 1>> is the 0 returned for fewer than 6 amounts.
amountConsistency(amounts) ==
    IF Len(amounts) < 6 THEN <<0, 1>>
    ELSE <<CloseCount(amounts, median2(amounts)), Len(amounts)>>

FracGeq(f, num, den) == f[1] * den >= num * f[2]
FracMax(f, h) == IF f[1] * h[2] >= h[1] * f[2] THEN f ELSE h

MapDec(counts, k) ==
    IF MapGet(counts, k, 0) - 1 <= 0
    THEN [x \in DOMAIN counts \ {k} |-> counts[x]]
    ELSE [counts EXCEPT ![k] = @ - 1]

RECURSIVE WindowShrink(_, _, _, _, _)
\* The while loop of bestUniqueWindow: lines 220-226.
WindowShrink(list, side, r, l, counts) ==
    IF list[r].t - list[l].t > WINDOW_SEC
    THEN WindowShrink(list, side, r, l + 1, MapDec(counts, list[l][side]))
    ELSE [l |-> l, counts |-> counts]

NoHit == [hit |-> FALSE, uniq |-> 0, minT |-> 0, maxT |-> 0,
          counterparties |-> {}, amounts |-> <<>>]

\* Lines 228-242: the window l..r after the shrink, against the best so far.
WindowBest(list, side, r, l, uniq, best) ==
    IF uniq >= MIN_UNIQUE
       /\ (\/ ~best.hit
           \/ uniq > best.uniq
           \/ (uniq = best.uniq
               /\ (list[r].t - list[l].t) < (best.maxT - best.minT)))
    THEN [hit |-> TRUE, uniq |-> uniq, minT |-> list[l].t, maxT |-> list[r].t,
          counterparties |-> {list[i][side] : i \in l..r},
          amounts |-> [i \in 1..(r - l + 1) |-> list[l + i - 1].amount]]
    ELSE best

RECURSIVE WindowScan(_, _, _, _, _, _)
RECURSIVE WindowScanFrom(_, _, _, _, _)
\* The for loop of bestUniqueWindow over r (1-based here), counts holding the
\* counterparty counts of the window l..r-1.
WindowScan(list, side, r, l, counts, best) ==
    IF Evaluated(best) /\ r > Len(list) THEN best
    ELSE WindowScanFrom(list, side, r,
             WindowShrink(list, side, r, l, MapInc(counts, list[r][side])), best)

\* The rest of the loop body, sh holding l and counts after the while loop.
WindowScanFrom(list, side, r, sh, best) ==
    WindowScan(list, side, r + 1, sh.l, sh.counts,
               WindowBest(list, side, r, sh.l, Cardinality(DOMAIN sh.counts), best))

\* bestUniqueWindow(list, x => x[side]); NoHit is null.
bestUniqueWindow(list, side) ==
    IF list = <<>> THEN NoHit
    ELSE WindowScan(list, side, 1, 1, [k \in {} |-> 0], NoHit)

\* The unique senders among receivers that paid cand within [minT, maxT].
CashSenders(gr, cand, receivers, minT, maxT) ==
    {tx.sender_id : tx \in {x \in Range(MapGet(gr.txIn, cand, <<>>)) :
                               x.t >= minT /\ x.t <= maxT /\ x.sender_id \in receivers}}

\* The positions in graph.nodes of the candidates that pass the tests of the
\* scan for the cash-out node.
CashCandidates(gr, receivers, minT, maxT) ==
    {i \in DOMAIN gr.nodes :
        /\ Len(MapGet(gr.txIn, gr.nodes[i], <<>>)) >= MIN_UNIQUE
        /\ Cardinality(CashSenders(gr, gr.nodes[i], receivers, minT, maxT))
           >= MIN_UNIQUE
        /\ Len(MapGet(gr.txOut, gr.nodes[i], <<>>)) <= 2}

\* The first of the positions in cands with the largest count of unique
\* senders: u > bestCashU replaces the candidate kept so far.
CashBest(gr, receivers, minT, maxT, cands) ==
    CHOOSE i \in cands :
        \A j \in cands :
            LET ui == Cardinality(CashSenders(gr, gr.nodes[i], receivers, minT, maxT))
                uj == Cardinality(CashSenders(gr, gr.nodes[j], receivers, minT, maxT))
            IN uj < ui \/ (uj = ui /\ i <= j)

\* The scan for the cash-out node: cashout, "" for null.
CashScan(gr, receivers, minT, maxT) ==
    IF CashCandidates(gr, receivers, minT, maxT) = {} THEN ""
    ELSE gr.nodes[CashBest(gr, receivers, minT, maxT,
                           CashCandidates(gr, receivers, minT, maxT))]

\* Lines 312-350: the ring and the evidence of a hub that passed the tests;
\* cash is the cash-out account or "" for none, mx the larger consistency.
SmurfEmit(hub, senders, receivers, cash, mx, acc) ==
    [rings |-> Append(acc.rings,
        [pattern_type    |-> "smurfing",
         member_accounts |->
             <<hub>> \o SortIds(senders) \o SortIds(receivers)
             \o (IF cash # "" /\ cash # hub /\ cash \notin senders \cup receivers
                 THEN <<cash>> ELSE <<>>),
         risk_score      |->
             clamp(700 + 12 * Cardinality(senders) + 12 * Cardinality(receivers)
                   + ((120 * mx[1] + mx[2]) \div (2 * mx[2]))
                   + (IF cash # "" THEN 40 ELSE 0))]),
     evidenceByAccount |->
         acc.evidenceByAccount
         \cup {<<hub, "smurfing_fan_in">>, <<hub, "smurfing_fan_out">>,
               <<hub, "temporal_72h">>}
         \cup {<<s, "smurfing_fan_in">> : s \in senders}
         \cup {<<s, "temporal_72h">> : s \in senders}
         \cup {<<r, "smurfing_fan_out">> : r \in receivers}
         \cup {<<r, "temporal_72h">> : r \in receivers}
         \cup (IF cash # ""
               THEN {<<cash, "smurfing_fan_out">>, <<cash, "temporal_72h">>,
                     <<cash, "cash_out">>}
               ELSE {})]

\* Lines 270-310: the tests on the two windows of a hub.
SmurfWindows(gr, hub, bestIn, bestOut, inCons, outCons, acc) ==
    IF ~bestIn.hit \/ ~bestOut.hit THEN acc
    ELSE IF Max2(bestIn.maxT, bestOut.maxT) - Min2(bestIn.minT, bestOut.minT)
            > WINDOW_SEC THEN acc
    ELSE IF ~(FracGeq(inCons, 50, 100) \/ FracGeq(outCons, 45, 100)) THEN acc
    ELSE SmurfEmit(hub, bestIn.counterparties, bestOut.counterparties,
                   CashScan(gr, bestOut.counterparties,
                            Min2(bestIn.minT, bestOut.minT),
                            Max2(bestIn.maxT, bestOut.maxT)),
                   FracMax(inCons, outCons), acc)

SmurfCons(gr, hub, bestIn, bestOut, acc) ==
    SmurfWindows(gr, hub, bestIn, bestOut, amountConsistency(bestIn.amounts),
                 amountConsistency(bestOut.amounts), acc)

\* The body of detectSmurfing's loop for one hub.
SmurfHub(gr, hub, acc) ==
    IF Len(MapGet(gr.txIn, hub, <<>>)) < MIN_UNIQUE
       \/ Len(MapGet(gr.txOut, hub, <<>>)) < MIN_UNIQUE
    THEN acc
    ELSE SmurfCons(gr, hub,
                   bestUniqueWindow(gr.txIn[hub], "sender_id"),
                   bestUniqueWindow(gr.txOut[hub], "receiver_id"), acc)

\* The rings and the evidence of the hubs in the order of graph.nodes; res[i]
\* is what the hub at position i adds.
SmurfCollect(res) ==
    [rings |-> [k \in 1..Cardinality({i \in DOMAIN res : res[i].rings # <<>>}) |->
                   res[Nth({i \in DOMAIN res : res[i].rings # <<>>}, k)].rings[1]],
     evidenceByAccount |-> UNION {res[i].evidenceByAccount : i \in DOMAIN res}]

detectSmurfing(gr) ==
    SmurfCollect([i \in DOMAIN gr.nodes |-> SmurfHub(gr, gr.nodes[i], NoResult)])


(***************************************************************************)
(* mergeRings                                                              *)
(***************************************************************************)
\* jaccard(a, b) >= J for J = num/den, without division:
\* uni = 0 gives 0, which is below every J > 0.
JaccardAtLeast(a, b, num, den) ==
    LET inter == Cardinality(a \cap b)
        uni   == Cardinality(a) + Cardinality(b) - inter
    IN IF uni = 0 THEN 0 >= num ELSE inter * den >= num * uni

RECURSIVE MergeInner(_, _, _, _, _, _)
\* The loop over j of mergeRings for the base ring at i.
MergeInner(rs, i, j, used, best, J) ==
    IF j > Len(rs) THEN [used |-> used, best |-> best]
    ELSE IF j \in used \/ rs[j].pattern_type # rs[i].pattern_type
         THEN MergeInner(rs, i, j + 1, used, best, J)
    ELSE IF JaccardAtLeast(Range(rs[i].member_accounts),
                           Range(rs[j].member_accounts), J[1], J[2])
         THEN MergeInner(rs, i, j + 1, used \cup {j},
                         IF rs[j].risk_score > best.risk_score
                         THEN [best EXCEPT !.risk_score = rs[j].risk_score,
                                           !.member_accounts = rs[j].member_accounts]
                         ELSE best, J)
    ELSE MergeInner(rs, i, j + 1, used, best, J)

RECURSIVE MergeOuter(_, _, _, _, _)
MergeOuter(rs, i, used, outp, J) ==
    IF Evaluated(outp) /\ i > Len(rs) THEN outp
    ELSE IF i \in used THEN MergeOuter(rs, i + 1, used, outp, J)
    ELSE LET r == MergeInner(rs, i, i + 1, used, rs[i], J)
         IN MergeOuter(rs, i + 1, r.used, Append(outp, r.best), J)

\* The candidates as the detectors gave them, none merged.
unmergedRings(rs, J) == rs

\* mergeRings(rings, J), J a fraction <<numerator, denominator>>.
mergeRings(rs, J) == MergeOuter(rs, 1, {}, <<>>, J)

\* The threshold the POST handler passes: 0.6.
PipelineJ == <<6, 10>>

(***************************************************************************)
(* initAccountScores, applyWinModeScoring                                  *)
(***************************************************************************)
\* null (a ring id is never the empty string).
Null == <<>>

initAccountScores(nodes) ==
    [n \in Range(nodes) |-> [score |-> 0, patterns |-> {}, ringId |-> Null]]

RECURSIVE Xor(_, _)
\* a ^ b on non-negative integers.
Xor(a, b) ==
    IF a = 0 THEN b
    ELSE IF b = 0 THEN a
    ELSE 2 * Xor(a \div 2, b \div 2) + (((a % 2) + (b % 2)) % 2)

\* One round of FNV-1a on h = hi * 2^16 + lo, an unsigned 32-bit value kept
\* as two 16-bit halves: h ^= c; h = Math.imul(h, 16777619) (0x01000193,
\* that is 256 * 2^16 + 403), modulo 2^32.
FnvRound(h, c) ==
    LET lo == Xor(h.lo, c)
        p  == lo * 403
    IN [lo |-> p % 65536,
        hi |-> (h.hi * 403 + lo * 256 + (p \div 65536)) % 65536]

RECURSIVE FnvFold(_, _)
FnvFold(h, chars) ==
    IF Evaluated(h) /\ chars = <<>> THEN h
    ELSE FnvFold(FnvRound(h, CodeUnit[Head(chars)]), Tail(chars))

\* The 32-bit hash of stableJitter01(s), seed 2166136261 = 0x811C9DC5.
Fnv1a(chars) == FnvFold([hi |-> 33052, lo |-> 40389], chars)

\* round(10 * jitter) + 4 for jitter = (h / 2^32 - 0.5) * 0.8, that is
\* floor(h / 2^29 + 1/2), which the upper half of h decides: a value in 0..8.
JitterTenths(acct, pattern_type) ==
    (Fnv1a(Chars(acct) \o <<"|">> \o PatternChars(pattern_type)).hi + 4096) \div 8192

\* Every account mapped to the first ring that holds it.
firstRingByAccount(rs) ==
    [a \in UNION {Range(rs[i].member_accounts) : i \in DOMAIN rs} |->
        CHOOSE i \in DOMAIN rs :
            /\ a \in Range(rs[i].member_accounts)
            /\ \A j \in 1..(i - 1) : a \notin Range(rs[j].member_accounts)]

\* Lines 51-57: bestRingByAccount, a map from account to the index of its
\* ring: the first of the rings holding the account that have the largest
\* risk, since only a strictly larger risk replaces the ring kept so far.
bestRingByAccount(rs) ==
    [a \in UNION {Range(rs[i].member_accounts) : i \in DOMAIN rs} |->
        CHOOSE i \in DOMAIN rs :
            /\ a \in Range(rs[i].member_accounts)
            /\ \A j \in DOMAIN rs :
                   a \in Range(rs[j].member_accounts)
                   => \/ rs[j].risk_score < rs[i].risk_score
                      \/ (rs[j].risk_score = rs[i].risk_score /\ i <= j)]

\* Lines 68-89: the score of acct in ring, with its pattern set pats, rounded
\* to one decimal and clamped.
RoleScore(acct, ring, pats) ==
    LET risk == ring.risk_score
        j    == JitterTenths(acct, ring.pattern_type) - 4
        pt   == ring.pattern_type
    IN clamp(
        IF pt = "cycle" THEN risk - 31 + j
        ELSE IF pt = "smurfing"
             THEN IF ring.member_accounts[1] = acct THEN risk + 28
                  ELSE IF "cash_out" \in pats THEN risk + 17
                  ELSE IF "smurfing_fan_out" \in pats THEN risk - 59 + j
                  ELSE IF "smurfing_fan_in" \in pats THEN risk - 164 + j
                  ELSE risk - 100 + j
        ELSE IF pt = "layered_shell"
             THEN IF "cash_out" \in pats THEN risk + 22
                  ELSE IF "low_activity_shell" \in pats THEN risk + 4 + j
                  ELSE IF "pre_cashout" \in pats THEN risk - 17 + j
                  ELSE IF "source_funds" \in pats THEN risk - 54 + j
                  ELSE risk - 10 + j
        ELSE risk)

\* The loop scoring every account on the tags its entry held before the
\* evidence was added to them.
ScoreByOwnTags(rs, ev, scores, best) ==
    [acct \in DOMAIN scores |->
        IF acct \notin DOMAIN best THEN scores[acct]
        ELSE [score    |-> RoleScore(acct, rs[best[acct]], scores[acct].patterns),
              patterns |-> scores[acct].patterns \cup EvGet(ev, acct),
              ringId   |-> Null]]

\* The loop adding the evidence to the tags of every account before it
\* skips the accounts without a ring.
ScoreTaggedAccounts(rs, ev, scores, best) ==
    [acct \in DOMAIN scores |->
        IF acct \notin DOMAIN best
        THEN [scores[acct] EXCEPT !.patterns = @ \cup EvGet(ev, acct)]
        ELSE [score    |-> RoleScore(acct, rs[best[acct]],
                                     scores[acct].patterns \cup EvGet(ev, acct)),
              patterns |-> scores[acct].patterns \cup EvGet(ev, acct),
              ringId   |-> Null]]

\* Lines 59-91: the loop over bestRingByAccount, best being that map.
ScoreByBestRing(rs, ev, scores, best) ==
    [acct \in DOMAIN scores |->
        IF acct \notin DOMAIN best THEN scores[acct]
        ELSE [score    |-> RoleScore(acct, rs[best[acct]],
                                     scores[acct].patterns \cup EvGet(ev, acct)),
              patterns |-> scores[acct].patterns \cup EvGet(ev, acct),
              ringId   |-> Null]]

applyWinModeScoring(rs, ev, scores) ==
    ScoreByBestRing(rs, ev, scores, bestRingByAccount(rs))

(***************************************************************************)
(* buildDeterministicOutput                                                *)
(***************************************************************************)
uniqPreserveOrder(xs) == FirstOccurrences(xs)

ringSignature(r) ==
    PatternChars(r.pattern_type) \o <<"|">>
        \o Join(SortIds(Range(r.member_accounts)), <<",">>)

PatternOrder ==
    <<"cycle_length_3", "cycle_length_4", "cycle_length_5", "cycle",
      "smurfing_fan_in", "smurfing_fan_out", "temporal_72h",
      "layered_shell_chain", "source_funds", "low_activity_shell",
      "pre_cashout", "cash_out">>

\* orderPatterns on tags of the vocabulary: ascending patternRank.
orderPatterns(patterns) ==
    LET idx == {i \in DOMAIN PatternOrder : PatternOrder[i] \in patterns}
        nth(k) == CHOOSE i \in idx : Cardinality({j \in idx : j < i}) = k - 1
    IN [k \in 1..Cardinality(idx) |-> PatternOrder[nth(k)]]

patternPriority(pt) ==
    IF pt = "cycle" THEN 1
    ELSE IF pt = "smurfing" THEN 2
    ELSE IF pt = "layered_shell" THEN 3 ELSE 9

\* Step 1: bestBySig as the sequence of its rings in the order their
\* signatures were first set; sigs[i] is the signature of rs[i].  A signature
\* keeps the first of its rings with the largest risk.
BestBySig(rs, sigs) ==
    Array([k \in 1..Cardinality(Range(sigs)) |->
              rs[CHOOSE i \in DOMAIN rs :
                    /\ sigs[i] = FirstOccurrences(sigs)[k]
                    /\ \A j \in DOMAIN rs :
                           sigs[j] = sigs[i]
                           => \/ rs[j].risk_score < rs[i].risk_score
                              \/ (rs[j].risk_score = rs[i].risk_score /\ i <= j)]])

DedupRings(rs) == BestBySig(rs, Array([i \in DOMAIN rs |-> ringSignature(rs[i])]))

\* The key of a ring in the comparator of step 2: its sorted unique members
\* joined by "|".
RingKey(r) == Join(SortIds(Range(r.member_accounts)), <<"|">>)

\* The comparator of step 2, as "a sorts strictly before b", ka and kb being
\* the keys of a and b.  localeCompare is taken by code units, which is what
\* it gives on upper-case ids.
KeyBefore(a, ka, b, kb) ==
    IF patternPriority(a.pattern_type) # patternPriority(b.pattern_type)
    THEN patternPriority(a.pattern_type) < patternPriority(b.pattern_type)
    ELSE StrLess(ka, kb)

RingBefore(a, b) == KeyBefore(a, RingKey(a), b, RingKey(b))

\* ringList.sort(...): stable; keys[i] is the key of a[i].
SortRingsByKey(a, keys) ==
    Array([k \in DOMAIN a |->
              a[CHOOSE i \in DOMAIN a :
                  Cardinality({j \in DOMAIN a \ {i} :
                                  \/ KeyBefore(a[j], keys[j], a[i], keys[i])
                                  \/ (~KeyBefore(a[i], keys[i], a[j], keys[j])
                                      /\ j < i)}) = k - 1]])

SortRings(a) == SortRingsByKey(a, Array([i \in DOMAIN a |-> RingKey(a[i])]))

RECURSIVE Decimal(_)
\* String(n) for n >= 0.
Decimal(n) == IF n < 10 THEN <<Digit[n + 1]>> ELSE Decimal(n \div 10) \o <<Digit[(n % 10) + 1]>>

\* `RING_${String(k).padStart(3, "0")}`
RingId(k) ==
    LET d == Decimal(k)
    IN <<"R", "I", "N", "G", "_">>
       \o (IF Len(d) = 1 THEN <<"0", "0">> ELSE IF Len(d) = 2 THEN <<"0">> ELSE <<>>)
       \o d

\* Every ring emitted with the members of the first.
EmitRingsOfFirst(ringList) ==
    [k \in DOMAIN ringList |->
        [ring_id         |-> RingId(k),
         member_accounts |-> SortIds(Range(ringList[1].member_accounts)),
         pattern_type    |-> ringList[k].pattern_type,
         risk_score      |-> clamp(ringList[k].risk_score)]]

\* Lines 190-202: the sorted rings with their ids and emitted member lists.
EmitRings(ringList) ==
    Array([k \in DOMAIN ringList |->
              [ring_id         |-> RingId(k),
               member_accounts |->
                   IF ringList[k].pattern_type = "cycle"
                   THEN SortIds(Range(ringList[k].member_accounts))
                   ELSE uniqPreserveOrder(ringList[k].member_accounts),
               pattern_type    |-> ringList[k].pattern_type,
               risk_score      |-> clamp(ringList[k].risk_score)]])

\* Steps 1 and 2: the emitted rings.
FraudRings(rs) == EmitRings(SortRings(DedupRings(rs)))

\* Every member of a ring mapped to the first ring.
memberToFirstRing(fr) ==
    [m \in UNION {Range(fr[i].member_accounts) : i \in DOMAIN fr} |->
        [ring_id |-> fr[1].ring_id, risk |-> fr[1].risk_score]]

\* Every member mapped to the ring of the largest id among its rings of the
\* largest risk.
memberToLatestRing(fr) ==
    [m \in UNION {Range(fr[i].member_accounts) : i \in DOMAIN fr} |->
        LET i == CHOOSE i \in DOMAIN fr :
                    /\ m \in Range(fr[i].member_accounts)
                    /\ \A j \in DOMAIN fr \ {i} :
                           m \in Range(fr[j].member_accounts)
                           => \/ fr[j].risk_score < fr[i].risk_score
                              \/ (fr[j].risk_score = fr[i].risk_score
                                  /\ StrLess(fr[j].ring_id, fr[i].ring_id))
        IN [ring_id |-> fr[i].ring_id, risk |-> fr[i].risk_score]]

\* Step 3: memberToBestRing.  An entry is replaced by a ring of larger risk,
\* or of the same risk and a smaller ring_id, so a member ends with the ring
\* of the smallest id among its rings of the largest risk.
memberToBestRing(fr) ==
    [m \in UNION {Range(fr[i].member_accounts) : i \in DOMAIN fr} |->
        LET i == CHOOSE i \in DOMAIN fr :
                    /\ m \in Range(fr[i].member_accounts)
                    /\ \A j \in DOMAIN fr \ {i} :
                           m \in Range(fr[j].member_accounts)
                           => \/ fr[j].risk_score < fr[i].risk_score
                              \/ (fr[j].risk_score = fr[i].risk_score
                                  /\ StrLess(fr[i].ring_id, fr[j].ring_id))
        IN [ring_id |-> fr[i].ring_id, risk |-> fr[i].risk_score]]

\* The comparator of the final sort of suspicious_accounts.
SuspBefore(a, b) ==
    IF a.suspicion_score # b.suspicion_score
    THEN a.suspicion_score > b.suspicion_score
    ELSE IdLess(a.account_id, b.account_id)

\* suspicious_accounts.sort(...) on entries of distinct accounts.
SortSusp(S) ==
    [k \in 1..Cardinality(S) |->
        CHOOSE x \in S : Cardinality({y \in S : SuspBefore(y, x)}) = k - 1]

\* The entries of the accounts whose score is above 60.
SuspiciousAbove(best, scores) ==
    SortSusp({[account_id       |-> a,
               suspicion_score  |-> clamp(scores[a].score),
               detected_patterns |-> orderPatterns(scores[a].patterns),
               ring_id          |-> IF a \in DOMAIN best THEN best[a].ring_id
                                    ELSE scores[a].ringId] :
              a \in {x \in DOMAIN scores :
                        clamp(scores[x].score) > 600 /\ scores[x].patterns # {}}})

\* Step 4: one entry per account that passes the filter (the accounts are
\* distinct, so the final sort fixes the order of the list).
SuspiciousOf(best, scores) ==
    SortSusp({[account_id       |-> a,
               suspicion_score  |-> clamp(scores[a].score),
               detected_patterns |-> orderPatterns(scores[a].patterns),
               ring_id          |-> IF a \in DOMAIN best THEN best[a].ring_id
                                    ELSE scores[a].ringId] :
              a \in {x \in DOMAIN scores :
                        clamp(scores[x].score) >= 600 /\ scores[x].patterns # {}}})

SuspiciousAccounts(fr, scores) == SuspiciousOf(memberToBestRing(fr), scores)

\* processingMs is Date.now() - t0; the document holds it in seconds with
\* three decimals, which is that count of milliseconds.
\* The summary with the elapsed time added to the count of rings.
DocumentClockInCount(allNodes, sa, fr, processingMs) ==
    [suspicious_accounts |-> sa,
     fraud_rings         |-> fr,
     summary |-> [total_accounts_analyzed     |-> Len(allNodes),
                  suspicious_accounts_flagged |-> Len(sa),
                  fraud_rings_detected        |-> Len(fr) + processingMs,
                  processing_time_ms          |-> processingMs]]

\* The summary with one account more than the graph has.
DocumentOneMore(allNodes, sa, fr, processingMs) ==
    [suspicious_accounts |-> sa,
     fraud_rings         |-> fr,
     summary |-> [total_accounts_analyzed     |-> Len(allNodes) + 1,
                  suspicious_accounts_flagged |-> Len(sa),
                  fraud_rings_detected        |-> Len(fr),
                  processing_time_ms          |-> processingMs]]

\* Lines 240-249: the document, sa and fr being the two lists.
Document(allNodes, sa, fr, processingMs) ==
    [suspicious_accounts |-> sa,
     fraud_rings         |-> fr,
     summary |-> [total_accounts_analyzed     |-> Len(allNodes),
                  suspicious_accounts_flagged |-> Len(sa),
                  fraud_rings_detected        |-> Len(fr),
                  processing_time_ms          |-> processingMs]]

DocumentOf(allNodes, fr, scores, processingMs) ==
    Document(allNodes, SuspiciousAccounts(fr, scores), fr, processingMs)

buildDeterministicOutput(allNodes, rs, scores, processingMs) ==
    DocumentOf(allNodes, FraudRings(rs), scores, processingMs)

(***************************************************************************)
(* The POST handler of /api/analyze, one action per stage                  *)
(***************************************************************************)
NoDoc == [suspicious_accounts |-> <<>>, fraud_rings |-> <<>>,
          summary |-> [total_accounts_analyzed |-> 0,
                       suspicious_accounts_flagged |-> 0,
                       fraud_rings_detected |-> 0,
                       processing_time_ms |-> 0 - 1]]

\* The state of a request whose body has just been parsed into list.
Parsed(list) ==
    /\ txs = list
    /\ pc = "parsed"
    /\ g = EmptyGraph
    /\ smurf = NoResult
    /\ cycles = NoResult
    /\ shells = NoResult
    /\ rings = <<>>
    /\ evidence = {}
    /\ accountScores = initAccountScores(<<>>)
    /\ out = NoDoc
    /\ prevOut = NoDoc
    /\ runs = 1

BuildGraph ==
    /\ pc = "parsed"
    /\ g' = buildGraph(txs)
    /\ pc' = "graph"
    /\ UNCHANGED <<txs, smurf, cycles, shells, rings, evidence, accountScores,
                   out, prevOut, runs>>

DetectSmurfing ==
    /\ pc = "graph"
    /\ smurf' = detectSmurfing(g)
    /\ pc' = "smurf"
    /\ UNCHANGED <<txs, g, cycles, shells, rings, evidence, accountScores,
                   out, prevOut, runs>>

DetectCycles ==
    /\ pc = "smurf"
    /\ cycles' = detectCycles35(g)
    /\ pc' = "cycles"
    /\ UNCHANGED <<txs, g, smurf, shells, rings, evidence, accountScores,
                   out, prevOut, runs>>

DetectShellChains ==
    /\ pc = "cycles"
    /\ shells' = detectShellChains(g)
    /\ pc' = "shells"
    /\ UNCHANGED <<txs, g, smurf, cycles, rings, evidence, accountScores,
                   out, prevOut, runs>>

\* Lines 34-57 of the handler: the candidates concatenated, the evidence
\* maps unioned, adjustRingRisks (which returns its rings), mergeRings.
adjustRingRisks(rs) == rs

MergeStep ==
    /\ pc = "shells"
    /\ rings' = mergeRings(adjustRingRisks(smurf.rings \o cycles.rings \o shells.rings),
                           PipelineJ)
    /\ evidence' = smurf.evidenceByAccount \cup cycles.evidenceByAccount
                   \cup shells.evidenceByAccount
    /\ pc' = "merged"
    /\ UNCHANGED <<txs, g, smurf, cycles, shells, accountScores, out, prevOut, runs>>

ScoreStep ==
    /\ pc = "merged"
    /\ accountScores' = applyWinModeScoring(rings, evidence, initAccountScores(g.nodes))
    /\ pc' = "scored"
    /\ UNCHANGED <<txs, g, smurf, cycles, shells, rings, evidence, out, prevOut, runs>>

\* The clock: the milliseconds Date.now() - t0 may read.
MaxElapsedMs == 1

OutputStep ==
    /\ pc = "scored"
    /\ \E ms \in 0..MaxElapsedMs :
           out' = buildDeterministicOutput(g.nodes, rings, accountScores, ms)
    /\ pc' = "done"
    /\ UNCHANGED <<txs, g, smurf, cycles, shells, rings, evidence, accountScores,
                   prevOut, runs>>

Next ==
    \/ BuildGraph
    \/ DetectSmurfing
    \/ DetectCycles
    \/ DetectShellChains
    \/ MergeStep
    \/ ScoreStep
    \/ OutputStep

(***************************************************************************)
(* Inputs                                                                  *)
(***************************************************************************)
Tx(s, r, amount, t) == [sender_id |-> s, receiver_id |-> r, amount |-> amount, t |-> t]

\* The transactions of a list of edges <<sender, receiver>>, one per edge,
\* the k-th at t0 + (k - 1) * gap: ascending in time, as the parser leaves them.
EdgeTxs(edges, t0, gap, amount) ==
    [k \in DOMAIN edges |-> Tx(edges[k][1], edges[k][2], amount, t0 + (k - 1) * gap)]

T0 == 1000 * 1000
Gaps == {1200, 7200}

\* Every directed edge between two of four accounts.
DenseEdges ==
    <<<<"A","B">>, <<"B","C">>, <<"C","A">>, <<"C","D">>, <<"D","A">>, <<"B","D">>,
      <<"B","A">>, <<"C","B">>, <<"A","C">>, <<"D","C">>, <<"A","D">>, <<"D","B">>>>

MaxEdges == 7

DenseInputs ==
    {EdgeTxs(Pick(DenseEdges, idx), T0, gap, 100) :
        idx \in {x \in SUBSET (1..Len(DenseEdges)) : Cardinality(x) <= MaxEdges},
        gap \in Gaps}

\* A directed ring over the first k of these accounts (k = 1 a self-loop,
\* k = 2 a 2-cycle), with at most one more edge between two of them.
RingNodes == <<"A","B","C","D","E","F","G","H">>
MaxRing == 7

RingEdges(k) == [i \in 1..k |-> <<RingNodes[i], RingNodes[(i % k) + 1]>>]

RingInputs ==
    {EdgeTxs(e, T0, gap, 100) :
        e \in UNION {{RingEdges(k)}
                     \cup {Append(RingEdges(k), <<RingNodes[i], RingNodes[j]>>) :
                             i \in 1..k, j \in 1..k} : k \in 1..MaxRing},
        gap \in Gaps}

\* Accounts one of which has the id x, an id that holds a separator: the
\* character "|" or the character ",".  With "," the edges of the cycle
\* A -> B -> C -> D -> A are not in the order of the cycle.
PipeEdges(x) ==
    IF x = "B,C"
    THEN <<<<"A","B">>, <<"C","D">>, <<"A",x>>, <<x,"D">>, <<"D","A">>,
           <<"B","C">>, <<"D",x>>>>
    ELSE <<<<"A",x>>, <<x,"D">>, <<"D","A">>, <<"A","B">>, <<"B","C">>,
           <<"C","D">>, <<"D",x>>>>

PipeInputs ==
    {EdgeTxs(Pick(PipeEdges(x), idx), T0, gap, 100) :
        x \in {"B|C", "B,C"}, idx \in SUBSET (1..7), gap \in Gaps}

Init == \E list \in DenseInputs \cup RingInputs \cup PipeInputs : Parsed(list)

Spec == Init /\ [][Next]_vars

(* Chains *)
ChainNodes == <<"A","B","C","D","E","F","G","H","I","J","K","L">>
MaxChain == 8

\* The chain over the first k + 1 accounts: edge i at T0 + (i - 1) * gap, amount
\* 1000, changed in one way: "extra", one more transaction from account i to
\* account j after the chain's; "amount", edge i carries 1400; "late", the
\* edges from i on come 25 hours later; "early", edge i comes 2 hours before
\* edge i - 1.  The list is in ascending time.
ChainTxs(k, gap, kind, i, j) ==
    LET t(e) == T0 + 90000 + (e - 1) * gap
                + (IF kind = "late" /\ e >= i THEN 90000 ELSE 0)
                - (IF kind = "early" /\ e = i THEN gap + 7200 ELSE 0)
        base == [e \in 1..k |->
                   Tx(ChainNodes[e], ChainNodes[e + 1],
                      IF kind = "amount" /\ e = i THEN 1400 ELSE 1000, t(e))]
    IN SortByT(IF kind = "extra"
               THEN Append(base, Tx(ChainNodes[i], ChainNodes[j], 1000, t(k + 1)))
               ELSE base)

ChainInputs ==
    UNION {{ChainTxs(k, gap, "none", 0, 0)}
           \cup {ChainTxs(k, gap, "extra", i, j) : i \in 1..(k + 1), j \in 1..(k + 1)}
           \cup {ChainTxs(k, gap, kind, i, 0) :
                    kind \in {"amount", "late", "early"}, i \in 1..k}
           : k \in 1..MaxChain, gap \in {1800, 3600}}

\* The chain S -> X -> Y -> Z -> C, one transaction per edge, one hour apart,
\* every amount within 5% of 1000.
NearThousand == {950, 1000, 1050}

ShellScenarioInputs ==
    {<<Tx("S", "X", a1, T0), Tx("X", "Y", a2, T0 + 3600),
       Tx("Y", "Z", a3, T0 + 7200), Tx("Z", "C", a4, T0 + 10800)>> :
        a1 \in NearThousand, a2 \in NearThousand,
        a3 \in NearThousand, a4 \in NearThousand}

\* The chain A -> B|C -> D -> E beside one transaction from A|B to C, the
\* pair (A|B, C) having the edge key of the pair (A, B|C).  The chain's first
\* edge comes late seconds after that transaction, its other edges one and
\* two hours after it.
KeyedChainInputs ==
    {<<Tx("A|B", "C", amount, T0), Tx("B|C", "D", 100, T0 + 3600),
       Tx("D", "E", 100, T0 + 7200), Tx("A", "B|C", 100, T0 + late)>> :
        amount \in {100, 1000}, late \in {10800, 90000, 172800}}

InitChain ==
    \E list \in ChainInputs \cup ShellScenarioInputs \cup KeyedChainInputs : Parsed(list)

SpecChain == InitChain /\ [][Next]_vars

(* Hubs *)
HubId == "Z"
SinkId == "Y"
SenderIds == <<"A","B","C","D","E","F","G","H","I","J","K","W">>
ReceiverIds == <<"L","M","N","O","P","Q","R","S","T","U","V","X">>
MaxParties == 11

\* ns senders pay the hub, then nr receivers are paid by it, gap seconds
\* between transactions.  With self the hub also pays itself once, between
\* the two phases; with both the first sender is also a receiver; with sink
\* every receiver then pays the sink account; with even every amount is 100,
\* otherwise the amounts step by 40.
HubTxs(ns, nr, gap, self, both, sink, even) ==
    LET amt(i) == IF even THEN 100 ELSE 100 + 40 * i
        ins  == [i \in 1..ns |-> Tx(SenderIds[i], HubId, amt(i), T0 + (i - 1) * gap)]
        t1   == T0 + ns * gap
        slf  == IF self THEN <<Tx(HubId, HubId, 100, t1)>> ELSE <<>>
        rcv(i) == IF both /\ i = 1 THEN SenderIds[1] ELSE ReceiverIds[i]
        outs == [i \in 1..nr |-> Tx(HubId, rcv(i), amt(i), t1 + i * gap)]
        t2   == t1 + (nr + 1) * gap
        snk  == IF sink THEN [i \in 1..nr |-> Tx(rcv(i), SinkId, 100, t2 + i)]
                ELSE <<>>
    IN ins \o slf \o outs \o snk

HubInputs ==
    {HubTxs(ns, nr, gap, self, both, sink, even) :
        ns \in (MaxParties - 2)..MaxParties, nr \in (MaxParties - 2)..MaxParties,
        gap \in {60, 15000}, self \in BOOLEAN, both \in BOOLEAN,
        sink \in BOOLEAN, even \in BOOLEAN}

InitHub == \E list \in HubInputs : Parsed(list)

SpecHub == InitHub /\ [][Next]_vars

(* Requests *)
\* The requests made with one body.
MaxRuns == 2

\* The next POST with the same body: the handler starts again from the
\* parsed transactions; prevOut keeps the document the last request returned.
Rerun ==
    /\ pc = "done"
    /\ runs < MaxRuns
    /\ prevOut' = out
    /\ runs' = runs + 1
    /\ pc' = "parsed"
    /\ g' = EmptyGraph
    /\ smurf' = NoResult
    /\ cycles' = NoResult
    /\ shells' = NoResult
    /\ rings' = <<>>
    /\ evidence' = {}
    /\ accountScores' = initAccountScores(<<>>)
    /\ out' = NoDoc
    /\ UNCHANGED txs

NextRuns ==
    \/ Next
    \/ Rerun

\* The bodies sent more than once: the short rings and the chain scenario.
RunInputs == {list \in RingInputs : Len(list) <= 5} \cup ShellScenarioInputs

InitRuns == \E list \in RunInputs : Parsed(list)

SpecRuns == InitRuns /\ [][NextRuns]_vars

(* Ties *)
\* A hub with a cycle through it.  Nine senders pay the hub sixteen times in
\* turn and a tenth pays it once, the first off of these amounts 900 and the
\* others 100; then the hub pays ten receivers amounts that step by 40, gap
\* seconds between transactions; with close the first receiver then pays
\* sender c, which closes the cycle sender c -> hub -> first receiver.
TieTxs(off, close, c, gap) ==
    LET n    == 2 * MIN_UNIQUE - 3
        ins  == [k \in 1..n |->
                   Tx(IF k = n THEN SenderIds[MIN_UNIQUE]
                      ELSE SenderIds[((k - 1) % (MIN_UNIQUE - 1)) + 1],
                      HubId, IF k <= off THEN 900 ELSE 100, T0 + (k - 1) * gap)]
        outs == [i \in 1..MIN_UNIQUE |->
                   Tx(HubId, ReceiverIds[i], 100 + 40 * i, T0 + (n + i - 1) * gap)]
        back == IF close
                THEN <<Tx(ReceiverIds[1], SenderIds[c], 100,
                          T0 + (n + MIN_UNIQUE) * gap)>>
                ELSE <<>>
    IN ins \o outs \o back

TieInputs ==
    {TieTxs(off, close, c, gap) :
        off \in 0..4, close \in BOOLEAN, c \in {1, MIN_UNIQUE}, gap \in {60, 600}}

InitTie == \E list \in TieInputs : Parsed(list)

SpecTie == InitTie /\ [][Next]_vars

(* Graphs *)
\* buildGraph on its own.  Edges among A, C and the accounts A|B and B|C,
\* one of them twice and one from an account to itself.
GraphEdges ==
    <<<<"A","B|C">>, <<"A|B","C">>, <<"A","C">>, <<"C","A">>, <<"A","B|C">>,
      <<"C","C">>, <<"B|C","A|B">>>>

GraphInputs ==
    {EdgeTxs(Pick(GraphEdges, idx), T0, gap, 100) :
        idx \in SUBSET (1..Len(GraphEdges)), gap \in Gaps}

InitGraph == \E list \in GraphInputs : Parsed(list)

SpecGraph == InitGraph /\ [][BuildGraph]_vars

(* Row order *)
\* Ten senders pay the hub, then the hub pays ten receivers, gap seconds
\* between transactions; sender d pays twice at the same second, first the
\* amount first and then the amount second, every other sender pays 100.
\* With even the hub pays 100 to every receiver, otherwise amounts that step
\* by 40.  The list is sorted by (timestamp, sender, receiver).
OrderHubTxs(d, first, second, gap, even) ==
    LET t(i) == T0 + (i - 1) * gap
        ins  == [k \in 1..(MIN_UNIQUE + 1) |->
                   IF k <= d
                   THEN Tx(SenderIds[k], HubId, IF k = d THEN first ELSE 100, t(k))
                   ELSE Tx(SenderIds[k - 1], HubId,
                           IF k = d + 1 THEN second ELSE 100, t(k - 1))]
        outs == [i \in 1..MIN_UNIQUE |->
                   Tx(HubId, ReceiverIds[i], IF even THEN 100 ELSE 100 + 40 * i,
                      t(MIN_UNIQUE + 1 + i))]
    IN ins \o outs

OrderInputs ==
    {OrderHubTxs(d, am[1], am[2], gap, even) :
        d \in 1..MIN_UNIQUE, am \in {<<100, 900>>, <<900, 100>>, <<100, 104>>},
        gap \in {60, 15000}, even \in BOOLEAN}

\* The next POST, with a body that has two adjacent rows of equal timestamp,
\* sender and receiver in the other order: the parser's sort leaves rows with
\* equal keys in the order of the file.
Resubmit ==
    /\ pc = "done"
    /\ runs < MaxRuns
    /\ \E i \in 1..(Len(txs) - 1) :
           /\ txs[i].t = txs[i + 1].t
           /\ txs[i].sender_id = txs[i + 1].sender_id
           /\ txs[i].receiver_id = txs[i + 1].receiver_id
           /\ txs' = [txs EXCEPT ![i] = txs[i + 1], ![i + 1] = txs[i]]
    /\ prevOut' = out
    /\ runs' = runs + 1
    /\ pc' = "parsed"
    /\ g' = EmptyGraph
    /\ smurf' = NoResult
    /\ cycles' = NoResult
    /\ shells' = NoResult
    /\ rings' = <<>>
    /\ evidence' = {}
    /\ accountScores' = initAccountScores(<<>>)
    /\ out' = NoDoc

NextOrder ==
    \/ Next
    \/ Resubmit

InitOrder == \E list \in OrderInputs : Parsed(list)

SpecOrder == InitOrder /\ [][NextOrder]_vars

(* Assembly *)
\* buildDeterministicOutput on its own: the handler about to call it, with a
\* ring list and score states drawn from the sets below.  The graph is that
\* of a hub with ten senders and ten receivers followed by edges among A, B,
\* C, D, E and the account B|C.
AssembleTxs ==
    HubTxs(10, 10, 60, FALSE, FALSE, FALSE, TRUE)
    \o EdgeTxs(<<<<"A","B">>, <<"B","C">>, <<"C","D">>, <<"D","A">>, <<"C","A">>,
                 <<"A","B|C">>, <<"B|C","D">>, <<"D","E">>>>,
               T0 + 90000, 1200, 100)

AssembleGraph == buildGraph(AssembleTxs)

Ring(members, pt, risk) ==
    [member_accounts |-> members, pattern_type |-> pt, risk_score |-> risk]

\* Ring candidates over these accounts: two with the members A, B, C, D in
\* another order and with another risk, two whose sorted members join to the
\* same characters A|B|C|D.
RingPool ==
    {Ring(<<"A","B","C">>, "cycle", 993),
     Ring(<<"A","B","C","D">>, "cycle", 977),
     Ring(<<"A","B|C","D">>, "cycle", 993),
     Ring(<<HubId>> \o SubSeq(SenderIds, 1, 10) \o SubSeq(ReceiverIds, 1, 10),
          "smurfing", 1000),
     Ring(<<"A","B","C","D">>, "layered_shell", 880),
     Ring(<<"B","C","D","A">>, "layered_shell", 915),
     Ring(<<"B","C","D","E">>, "layered_shell", 880)}

\* The longest ring list drawn.
MaxRings == 2

\* The lists of at most MaxRings different candidates, in every order.
RingLists ==
    UNION {{l \in [1..n -> RingPool] : \A i, j \in 1..n : i # j => l[i] # l[j]} :
           n \in 0..MaxRings}

\* Score states around the threshold of 60 for A and B, with and without
\* tags; every other account has the initial state.
ScoreProfiles ==
    {[n \in Range(AssembleGraph.nodes) |->
        IF n = "A" THEN [score |-> sa, patterns |-> pa, ringId |-> Null]
        ELSE IF n = "B" THEN [score |-> sb, patterns |-> {"cash_out"}, ringId |-> Null]
        ELSE [score |-> 0, patterns |-> {}, ringId |-> Null]] :
     sa \in {599, 600, 1000}, pa \in {{}, {"cycle_length_3", "cycle"}},
     sb \in {599, 600}}

InitAssemble ==
    \E list \in RingLists : \E profile \in ScoreProfiles :
        /\ txs = AssembleTxs
        /\ pc = "scored"
        /\ g = AssembleGraph
        /\ smurf = NoResult
        /\ cycles = NoResult
        /\ shells = NoResult
        /\ rings = list
        /\ evidence = {}
        /\ accountScores = profile
        /\ out = NoDoc
        /\ prevOut = NoDoc
        /\ runs = 1

SpecAssemble == InitAssemble /\ [][OutputStep]_vars

(* Sinks *)
\* Ten senders pay the hub and the hub pays ten receivers, a minute apart.
\* Between the two phases the first n1 receivers pay the account first, one
\* of "W", "Y" and the first sender, and the first n2 receivers pay the other
\* of "W" and "Y".  With chain the transfers K -> V -> X -> A, one hour
\* apart, end in the first sender.  With even every amount is 100, otherwise
\* the last four payments to the hub and from it have amounts of their own.
\* With both the first receiver is the second sender.
SinkTxs(first, n1, n2, chain, even, both) ==
    LET second == IF first = "Y" THEN "W" ELSE "Y"
        amt(i) == IF even \/ i <= 6 THEN 100 ELSE 100 * i
        rcv(i) == IF both /\ i = 1 THEN SenderIds[2] ELSE ReceiverIds[i]
        ins   == [i \in 1..MIN_UNIQUE |-> Tx(SenderIds[i], HubId, amt(i), T0 + (i - 1) * 60)]
        t1    == T0 + MIN_UNIQUE * 60
        pays1 == [i \in 1..n1 |-> Tx(rcv(i), first, 100, t1 + i)]
        pays2 == [i \in 1..n2 |-> Tx(rcv(i), second, 100, t1 + 20 + i)]
        outs  == [i \in 1..MIN_UNIQUE |-> Tx(HubId, rcv(i), amt(i), t1 + 60 + i * 60)]
        hops  == IF chain
                 THEN <<Tx("K", "V", 100, T0 + 5), Tx("V", "X", 100, T0 + 3605),
                        Tx("X", "A", 100, T0 + 7205)>>
                 ELSE <<>>
    IN ins \o pays1 \o pays2 \o outs \o hops

SinkInputs ==
    {SinkTxs(first, n1, n2, chain, even, both) :
        first \in {"W", "Y", "A"}, n1 \in {MIN_UNIQUE - 1, MIN_UNIQUE},
        n2 \in {0, MIN_UNIQUE - 1, MIN_UNIQUE},
        chain \in BOOLEAN, even \in BOOLEAN, both \in BOOLEAN}

InitSink == \E list \in SinkInputs : Parsed(list)

SpecSink == InitSink /\ [][Next]_vars

(***************************************************************************)
(* Properties.  What a property says about the graph is read from the      *)
(* transactions, not from the collections the pipeline built.              *)
(***************************************************************************)
Accounts ==
    {txs[i].sender_id : i \in DOMAIN txs} \cup {txs[i].receiver_id : i \in DOMAIN txs}

\* Some transaction goes from a to b.
Edge(a, b) ==
    \E i \in DOMAIN txs : txs[i].sender_id = a /\ txs[i].receiver_id = b

RECURSIVE SimplePaths(_)
\* The directed paths over n distinct accounts.
SimplePaths(n) ==
    IF n = 1 THEN {<<a>> : a \in Accounts}
    ELSE UNION {{Append(p, b) : b \in {x \in Accounts :
                                          Edge(p[Len(p)], x) /\ x \notin Range(p)}} :
                p \in SimplePaths(n - 1)}

\* The directed simple cycles of length n, each written from its least account
\* on: one sequence for each cycle up to rotation.
SimpleCycles(n) ==
    {p \in SimplePaths(n) :
        Edge(p[n], p[1]) /\ \A i \in 2..n : IdLess(p[1], p[i])}

Cycles35 == SimpleCycles(3) \cup SimpleCycles(4) \cup SimpleCycles(5)

\* The fraud rings of the final document with the given pattern type.
FinalRings(pt) ==
    {out.fraud_rings[i] : i \in {k \in DOMAIN out.fraud_rings :
                                    out.fraud_rings[k].pattern_type = pt}}

\* C1: merging the merged ring list again with the pipeline's threshold 0.6
\* gives the same list: the same rings in the same order.
C1_MergeIdempotent ==
    pc = "merged" => mergeRings(rings, PipelineJ) = rings

\* C2: every account on a directed simple cycle of length 3, 4 or 5 is a
\* member of some fraud ring of type cycle in the final document.
C2_CycleAccountsFlagged ==
    pc = "done" =>
        \A p \in Cycles35 : \A a \in Range(p) :
            \E r \in FinalRings("cycle") : a \in Range(r.member_accounts)

\* C3: every ring detectShellChains emits is a simple directed path of at
\* least 3 and at most 6 edges, that is of 4 to 7 accounts.
C3_ChainLength ==
    \A k \in DOMAIN shells.rings :
        LET m == shells.rings[k].member_accounts
        IN /\ Len(m) >= 4
           /\ Len(m) <= 7
           /\ \A i, j \in DOMAIN m : i # j => m[i] # m[j]
           /\ \A i \in 1..(Len(m) - 1) : Edge(m[i], m[i + 1])

\* C4: for the single chain S -> X -> Y -> Z -> C, one transaction per edge, an
\* hour apart, amounts within 5% of 1000, the final document has exactly one
\* fraud ring, of type layered_shell, with members S, X, Y, Z, C in this order.
C4_ShellScenario ==
    (pc = "done" /\ txs \in ShellScenarioInputs) =>
        /\ Len(out.fraud_rings) = 1
        /\ out.fraud_rings[1].pattern_type = "layered_shell"
        /\ out.fraud_rings[1].member_accounts = <<"S", "X", "Y", "Z", "C">>

C6_SuspiciousEntries ==
    pc = "done" =>
        \A k \in DOMAIN out.suspicious_accounts :
            LET e == out.suspicious_accounts[k]
            IN /\ e.suspicion_score >= 600
               /\ e.detected_patterns # <<>>
               /\ e.ring_id # Null =>
                     \E i \in DOMAIN out.fraud_rings :
                         /\ out.fraud_rings[i].ring_id = e.ring_id
                         /\ e.account_id \in Range(out.fraud_rings[i].member_accounts)

\* A final document with two fraud rings and a flagged account that is a
\* member of the second and not of the first.
C6_Witness ==
    /\ pc = "done"
    /\ Len(out.fraud_rings) >= 2
    /\ \E k \in DOMAIN out.suspicious_accounts :
           LET e == out.suspicious_accounts[k]
           IN /\ e.ring_id = out.fraud_rings[2].ring_id
              /\ e.account_id \notin Range(out.fraud_rings[1].member_accounts)

\* C7: in every final smurfing ring at least 10 distinct accounts other than
\* the hub pay the hub and at least 10 distinct accounts other than the hub
\* are paid by it.
C7_TenEachSide ==
    pc = "done" =>
        \A r \in FinalRings("smurfing") :
            LET hub == r.member_accounts[1]
                others == Range(r.member_accounts) \ {hub}
            IN /\ Cardinality({a \in others : Edge(a, hub)}) >= 10
               /\ Cardinality({a \in others : Edge(hub, a)}) >= 10

\* C8: in every final layered_shell ring every member but the first and the
\* last has exactly one distinct in-neighbour, exactly one distinct
\* out-neighbour and 2 or 3 transactions in all, also where mergeRings gave
\* the ring the members of a ring of higher risk.
C8_ShellIntermediates ==
    pc = "done" =>
        \A r \in FinalRings("layered_shell") :
            \A i \in 2..(Len(r.member_accounts) - 1) :
                LET m == r.member_accounts[i]
                IN /\ Cardinality({a \in Accounts : Edge(a, m)}) = 1
                   /\ Cardinality({a \in Accounts : Edge(m, a)}) = 1
                   /\ Cardinality({k \in DOMAIN txs : txs[k].sender_id = m})
                      + Cardinality({k \in DOMAIN txs : txs[k].receiver_id = m})
                      \in {2, 3}

\* A final document whose first ring is a layered_shell ring with the members
\* of a later candidate of higher risk, in a graph with an account that has
\* two in-neighbours or two out-neighbours.
C8_Witness ==
    /\ pc = "done"
    /\ smurf.rings = <<>>
    /\ cycles.rings = <<>>
    /\ shells.rings # <<>>
    /\ rings[1].member_accounts # shells.rings[1].member_accounts
    /\ Len(rings[1].member_accounts) >= 5
    /\ \E m \in Accounts :
           \/ Cardinality({a \in Accounts : Edge(a, m)}) >= 2
           \/ Cardinality({a \in Accounts : Edge(m, a)}) >= 2

\* C9: detectCycles35 emits one ring for each directed simple cycle of length
\* 3, 4 or 5, cycles taken up to rotation, and no other ring.
C9_OnePerCycle ==
    pc = "cycles" =>
        /\ \A p \in Cycles35 :
               Cardinality({k \in DOMAIN cycles.rings :
                               Range(cycles.rings[k].member_accounts) = Range(p)})
               = Cardinality({q \in Cycles35 : Range(q) = Range(p)})
        /\ \A k \in DOMAIN cycles.rings :
               \E p \in Cycles35 :
                   /\ Range(p) = Range(cycles.rings[k].member_accounts)
                   /\ Len(p) = Len(cycles.rings[k].member_accounts)

\* C10: no two fraud rings of type cycle of a final document have the same
\* set of members.
C10_DistinctCycleSets ==
    pc = "done" =>
        \A i, j \in DOMAIN out.fraud_rings :
            (/\ i # j
             /\ out.fraud_rings[i].pattern_type = "cycle"
             /\ out.fraud_rings[j].pattern_type = "cycle")
            => Range(out.fraud_rings[i].member_accounts)
               # Range(out.fraud_rings[j].member_accounts)

\* A final document for a graph with two cycles over the same accounts, both
\* found by detectCycles35, and with at least two rings of type cycle.
C10_Witness ==
    /\ pc = "done"
    /\ \E i, j \in DOMAIN cycles.rings :
           /\ i # j
           /\ Range(cycles.rings[i].member_accounts)
              = Range(cycles.rings[j].member_accounts)
    /\ Cardinality(FinalRings("cycle")) >= 2

\* The rings of the scored list that hold account a.
RingsOf(a) == {i \in DOMAIN rings : a \in Range(rings[i].member_accounts)}

\* Ring i of the scored list holds a, so does another ring, and every other
\* ring that holds a has a strictly lower risk.
StrictBest(a, i) ==
    /\ i \in RingsOf(a)
    /\ RingsOf(a) # {i}
    /\ \A j \in RingsOf(a) \ {i} : rings[j].risk_score < rings[i].risk_score

Emitted(a) ==
    \E k \in DOMAIN out.suspicious_accounts : out.suspicious_accounts[k].account_id = a

\* C12: an account has an entry in suspicious_accounts exactly when its
\* stored score, clamped to [0, 100], is at least 60.0 and its tag set is not
\* empty: 59.9 is never emitted, 60.0 with a tag is.
C12_EmittedIffSixty ==
    pc = "done" =>
        \A a \in DOMAIN accountScores :
            Emitted(a) <=> (/\ Min2(1000, Max2(0, accountScores[a].score)) >= 600
                            /\ accountScores[a].patterns # {})

\* A document assembled from a score of exactly 60.0 with a tag, which is
\* emitted, beside a score of 59.9 with a tag, which is not.
C12_Witness ==
    /\ pc = "done"
    /\ \E a, b \in DOMAIN accountScores :
           /\ accountScores[a].score = 600
           /\ accountScores[a].patterns # {}
           /\ Emitted(a)
           /\ accountScores[b].score = 599
           /\ accountScores[b].patterns # {}
           /\ ~Emitted(b)

\* The ring list rs in the order given by the permutation p of its positions.
Reordered(rs, p) == [k \in DOMAIN rs |-> rs[p[k]]]

Orders(n) == {p \in [1..n -> 1..n] : \A i, j \in 1..n : i # j => p[i] # p[j]}

\* k written with three digits (k < 1000).
Padded3(k) ==
    <<Digit[((k \div 100) % 10) + 1], Digit[((k \div 10) % 10) + 1], Digit[(k % 10) + 1]>>

\* The position of a pattern type in the order cycle, smurfing, layered_shell.
TypePosition(pt) ==
    CHOOSE i \in 1..3 : <<"cycle", "smurfing", "layered_shell">>[i] = pt

\* The sorted members of an emitted ring, joined.
MemberKey(r) == Join(SortIds(Range(r.member_accounts)), <<"|">>)

\* C13: the k-th fraud ring has the id RING_ followed by k in three digits;
\* cycle rings come before smurfing rings, which come before layered_shell
\* rings; rings of one type are in ascending order of their sorted members;
\* and the same rings passed in any other order get the same ids: the k-th
\* ring then has the same pattern type and the same members.
C13_RingIds ==
    pc = "done" =>
        /\ \A k \in DOMAIN out.fraud_rings :
               out.fraud_rings[k].ring_id = <<"R", "I", "N", "G", "_">> \o Padded3(k)
        /\ \A i, j \in DOMAIN out.fraud_rings :
               i < j =>
                   /\ TypePosition(out.fraud_rings[i].pattern_type)
                      <= TypePosition(out.fraud_rings[j].pattern_type)
                   /\ out.fraud_rings[i].pattern_type = out.fraud_rings[j].pattern_type
                      => ~StrLess(MemberKey(out.fraud_rings[j]),
                                  MemberKey(out.fraud_rings[i]))
        /\ \A p \in Orders(Len(rings)) :
               LET other == FraudRings(Reordered(rings, p))
               IN /\ Len(other) = Len(out.fraud_rings)
                  /\ \A k \in DOMAIN other :
                         /\ other[k].ring_id = out.fraud_rings[k].ring_id
                         /\ other[k].pattern_type = out.fraud_rings[k].pattern_type
                         /\ Range(other[k].member_accounts)
                            = Range(out.fraud_rings[k].member_accounts)

\* C14: every fraud ring of a final document has a risk in [0, 100] that is a
\* whole number of tenths, at least one member, and only members that are
\* accounts of the input transactions.
C14_RingsWellFormed ==
    pc = "done" =>
        \A k \in DOMAIN out.fraud_rings :
            /\ out.fraud_rings[k].risk_score \in 0..1000
            /\ out.fraud_rings[k].member_accounts # <<>>
            /\ Range(out.fraud_rings[k].member_accounts) \subseteq Accounts

\* A final document with a smurfing ring of eleven senders and eleven
\* receivers, whose risk before clamping is above 100, emitted with risk 100.
C14_Witness ==
    /\ pc = "done"
    /\ \E k \in DOMAIN out.fraud_rings :
           /\ out.fraud_rings[k].pattern_type = "smurfing"
           /\ Len(out.fraud_rings[k].member_accounts) >= 23
           /\ out.fraud_rings[k].risk_score = 1000

\* C15: the same transactions, sorted by (timestamp, sender, receiver), with
\* two rows of equal timestamp, sender and receiver in the other order give
\* the same fraud_rings and the same suspicious_accounts.
C15_EqualKeyOrder ==
    (pc = "done" /\ runs = 2) =>
        /\ out.fraud_rings = prevOut.fraud_rings
        /\ out.suspicious_accounts = prevOut.suspicious_accounts

\* The number of entries of list that are the transaction tx.
Occurrences(list, tx) == Cardinality({k \in DOMAIN list : list[k] = tx})

\* The lists the graph keeps for the pair (a, b), for the sender a and for
\* the receiver b.
EdgeList(a, b) == MapGet(g.edgeTx, edgeKey(a, b), <<>>)
OutList(a) == MapGet(g.txOut, a, <<>>)
InList(b) == MapGet(g.txIn, b, <<>>)

Ascending(list) == \A i, j \in DOMAIN list : i < j => list[i].t <= list[j].t

\* C16: after buildGraph every transaction is once in the edge list of its
\* (sender, receiver) pair, once in its sender's out-list, once in its
\* receiver's in-list and in no list of another pair or account; b is an
\* out-neighbour of a exactly when the edge list of (a, b) is not empty and
\* exactly when a is an in-neighbour of b; every list ascends in time.
C16_GraphLists ==
    pc = "graph" =>
        /\ \A i \in DOMAIN txs :
               /\ Occurrences(EdgeList(txs[i].sender_id, txs[i].receiver_id), txs[i]) = 1
               /\ Occurrences(OutList(txs[i].sender_id), txs[i]) = 1
               /\ Occurrences(InList(txs[i].receiver_id), txs[i]) = 1
               /\ \A a, b \in Accounts :
                      <<a, b>> # <<txs[i].sender_id, txs[i].receiver_id>>
                      => Occurrences(EdgeList(a, b), txs[i]) = 0
               /\ \A a \in Accounts \ {txs[i].sender_id} :
                      Occurrences(OutList(a), txs[i]) = 0
               /\ \A b \in Accounts \ {txs[i].receiver_id} :
                      Occurrences(InList(b), txs[i]) = 0
        /\ \A a, b \in Accounts :
               /\ b \in Range(MapGet(g.outNeighbors, a, <<>>)) <=> EdgeList(a, b) # <<>>
               /\ a \in Range(MapGet(g.inNeighbors, b, <<>>)) <=> EdgeList(a, b) # <<>>
        /\ \A a, b \in Accounts :
               Ascending(EdgeList(a, b)) /\ Ascending(OutList(a)) /\ Ascending(InList(b))

\* C17: for the empty transaction sequence the pipeline runs to its end and
\* the document has no fraud ring, no suspicious account and a summary that
\* counts 0 accounts, 0 flagged accounts and 0 rings.
C17_EmptyInput ==
    (pc = "done" /\ txs = <<>>) =>
        /\ out.fraud_rings = <<>>
        /\ out.suspicious_accounts = <<>>
        /\ out.summary.total_accounts_analyzed = 0
        /\ out.summary.suspicious_accounts_flagged = 0
        /\ out.summary.fraud_rings_detected = 0

\* The pipeline has run to its end on the empty sequence, every stage on
\* empty collections.
C17_Witness ==
    /\ pc = "done"
    /\ txs = <<>>
    /\ g.nodes = <<>>
    /\ rings = <<>>
    /\ DOMAIN accountScores = {}
    /\ out # NoDoc

\* C18: in a final document the summary counts the entries of fraud_rings,
\* the entries of suspicious_accounts and the distinct account ids that occur
\* as sender or receiver of an input transaction.
C18_SummaryCounts ==
    pc = "done" =>
        /\ out.summary.fraud_rings_detected = Len(out.fraud_rings)
        /\ out.summary.suspicious_accounts_flagged = Len(out.suspicious_accounts)
        /\ out.summary.total_accounts_analyzed = Cardinality(Accounts)

\* A final document with two rings and flagged accounts for an input with an
\* account that only receives and fewer flagged accounts than accounts.
C18_Witness ==
    /\ pc = "done"
    /\ Len(out.fraud_rings) >= 2
    /\ Len(out.suspicious_accounts) >= 3
    /\ Len(out.suspicious_accounts) < Cardinality(Accounts)
    /\ \E a \in Accounts : \A i \in DOMAIN txs : txs[i].sender_id # a

\* C19: for every entry of suspicious_accounts with a ring_id, the fraud ring
\* with that ring_id has the pattern type of the ring applyWinModeScoring
\* selected for the account, also when the account is in rings of different
\* pattern types and equal risk.
C19_RingIdOfScoredRing ==
    pc = "done" =>
        \A k \in DOMAIN out.suspicious_accounts :
            \A m \in DOMAIN out.fraud_rings :
                out.fraud_rings[m].ring_id = out.suspicious_accounts[k].ring_id
                => out.fraud_rings[m].pattern_type
                   = rings[bestRingByAccount(rings)[
                               out.suspicious_accounts[k].account_id]].pattern_type

\* The number of transactions account a sends or receives.
TotalCount(a) ==
    Cardinality({i \in DOMAIN txs : txs[i].sender_id = a})
    + Cardinality({i \in DOMAIN txs : txs[i].receiver_id = a})

\* C20: every member of a ring detectShellChains emits that was appended at
\* edge-depth 2 or more, that is every member from the third on, the last
\* included, has 2 or 3 transactions in all.
C20_LowFromDepthTwo ==
    \A k \in DOMAIN shells.rings :
        \A i \in 3..Len(shells.rings[k].member_accounts) :
            TotalCount(shells.rings[k].member_accounts[i]) \in {2, 3}

\* The accounts that tie on the largest count of unique senders among the
\* candidates of the scan made for the smurfing ring r.
TiedSinks(r) ==
    LET hub   == r.member_accounts[1]
        bIn   == bestUniqueWindow(g.txIn[hub], "sender_id")
        bOut  == bestUniqueWindow(g.txOut[hub], "receiver_id")
        minT  == Min2(bIn.minT, bOut.minT)
        maxT  == Max2(bIn.maxT, bOut.maxT)
        cands == CashCandidates(g, bOut.counterparties, minT, maxT)
        u(i)  == Cardinality(CashSenders(g, g.nodes[i], bOut.counterparties, minT, maxT))
    IN {g.nodes[i] : i \in {k \in cands : \A j \in cands : u(j) <= u(k)}}

\* C21: when several sink-like candidates tie on the largest count of unique
\* senders, detectSmurfing tags as cash-out the one with the
\* lexicographically smallest id, whatever the order of first appearance.
C21_CashOutSmallestId ==
    pc = "smurf" =>
        \A k \in DOMAIN smurf.rings :
            \A c \in TiedSinks(smurf.rings[k]) :
                <<c, "cash_out">> \in smurf.evidenceByAccount
                <=> \A d \in TiedSinks(smurf.rings[k]) : c = d \/ IdLess(c, d)

\* The contiguous windows a..b of list that span at most 72 hours.
Windows(list) ==
    {w \in (DOMAIN list) \X (DOMAIN list) :
        w[1] <= w[2] /\ list[w[2]].t - list[w[1]].t <= WINDOW_SEC}

Distinct(list, side, w) == Cardinality({list[i][side] : i \in w[1]..w[2]})

\* The window found is null when no window has MIN_UNIQUE counterparties,
\* and otherwise no window has more of them, nor as many in a shorter span.
Optimal(list, side, found) ==
    IF \A w \in Windows(list) : Distinct(list, side, w) < MIN_UNIQUE
    THEN ~found.hit
    ELSE /\ found.hit
         /\ \A w \in Windows(list) :
               /\ Distinct(list, side, w) <= found.uniq
               /\ Distinct(list, side, w) = found.uniq
                  => list[w[2]].t - list[w[1]].t >= found.maxT - found.minT

\* C22: on the time-ascending lists of the graph bestUniqueWindow returns
\* null when no window of at most 72 hours has MIN_UNIQUE distinct
\* counterparties, and otherwise a window that no such window beats in the
\* number of counterparties or, with the same number, in span.
C22_BestWindowOptimal ==
    pc = "graph" =>
        \A a \in DOMAIN g.txIn :
            Optimal(g.txIn[a], "sender_id", bestUniqueWindow(g.txIn[a], "sender_id"))

\* The account is a member of a ring of fraud_rings.
InEmittedRing(a) ==
    \E i \in DOMAIN out.fraud_rings : a \in Range(out.fraud_rings[i].member_accounts)

\* C23: in the final document an account is in suspicious_accounts exactly
\* when it is a member of an emitted fraud ring: every member of an emitted
\* ring has an evidence tag and a final score of at least 60, and no account
\* outside the emitted rings is flagged, whatever evidence it has.
C23_FlaggedIffMember ==
    pc = "done" =>
        \A a \in Accounts :
            /\ Emitted(a) <=> InEmittedRing(a)
            /\ InEmittedRing(a) =>
                  /\ EvGet(evidence, a) # {}
                  /\ accountScores[a].score >= 600

\* The rings handed to mergeRings: route.ts lines 34-38.
Candidates == smurf.rings \o cycles.rings \o shells.rings

\* Rings i and j of the candidates have the same pattern type and member
\* sets of Jaccard similarity at least 0.6.
Similar(i, j) ==
    LET a == Range(Candidates[i].member_accounts)
        b == Range(Candidates[j].member_accounts)
    IN /\ Candidates[i].pattern_type = Candidates[j].pattern_type
       /\ 10 * Cardinality(a \cap b) >= 6 * Cardinality(a \cup b)

\* owner extended by the owner of candidate i: the first representative
\* before i that is similar to i, or i itself, then a representative.
OwnerNext(owner, i) ==
    LET c == {k \in 1..(i - 1) : owner[k] = k /\ Similar(k, i)}
    IN Append(owner, IF c = {} THEN i ELSE CHOOSE k \in c : \A m \in c : k <= m)

RECURSIVE Owners(_)
\* The owner of each of the first n candidates.
Owners(n) == IF n = 0 THEN <<>> ELSE OwnerNext(Owners(n - 1), n)

\* Output ring k has the pattern type of representative r, the largest risk
\* of the candidates in group, and the members of the first candidate of
\* the group with that risk.
TakenFrom(k, r, group) ==
    /\ rings[k].pattern_type = Candidates[r].pattern_type
    /\ \E e \in group :
          /\ \A j \in group :
                \/ Candidates[j].risk_score < Candidates[e].risk_score
                \/ (Candidates[j].risk_score = Candidates[e].risk_score /\ e <= j)
          /\ rings[k].risk_score = Candidates[e].risk_score
          /\ rings[k].member_accounts = Candidates[e].member_accounts

\* The output has one ring per representative, in their order, each taken
\* from the group that grouped(owner, r) gives its representative r.
MergedFrom(owner, grouped(_, _)) ==
    LET reps == {i \in DOMAIN owner : owner[i] = i}
    IN /\ Len(rings) = Cardinality(reps)
       /\ \A k \in DOMAIN rings :
             TakenFrom(k, Nth(reps, k), grouped(owner, Nth(reps, k)))

\* The representative with the later candidates similar to it.
LaterSimilar(owner, r) == {r} \cup {j \in DOMAIN owner : j > r /\ Similar(r, j)}

\* The representative with the candidates it absorbed: the later candidates
\* similar to it that no earlier representative had absorbed.
Absorbed(owner, r) == {j \in DOMAIN owner : owner[j] = r}

\* C24 as stated: pattern type, members and risk of every ring mergeRings
\* returns are taken from candidates of that pattern type, the risk being
\* the largest over the representative and the later rings of its type
\* whose Jaccard similarity with the representative's own members is at
\* least J, the members those of the first ring with that risk.
C24_MaxOverLaterSimilar ==
    pc = "merged" => MergedFrom(Owners(Len(Candidates)), LaterSimilar)

\* C24, amended: the same, over the representative and the later similar
\* rings that no earlier representative absorbed; rings of different
\* pattern types are never combined.
C24_MaxOverAbsorbed ==
    pc = "merged" => MergedFrom(Owners(Len(Candidates)), Absorbed)

\* A merged list in which a representative took members and risk from a
\* ring it absorbed, and another representative is similar to a later ring
\* of higher risk that an earlier representative had absorbed.
C24_Witness ==
    /\ pc = "merged"
    /\ LET owner == Owners(Len(Candidates))
       IN /\ \E j \in DOMAIN owner :
                /\ owner[j] # j
                /\ Candidates[j].risk_score > Candidates[owner[j]].risk_score
          /\ \E r, j \in DOMAIN owner :
                /\ owner[r] = r
                /\ j > r
                /\ Similar(r, j)
                /\ owner[j] < r
                /\ Candidates[j].risk_score > Candidates[r].risk_score

\* Ring i of the scored list is the best ring of a: the first of the rings
\* of largest risk that hold a.
BestOf(a, i) ==
    /\ i \in RingsOf(a)
    /\ \A j \in RingsOf(a) :
          \/ rings[j].risk_score < rings[i].risk_score
          \/ (rings[j].risk_score = rings[i].risk_score /\ i <= j)

\* The account is not the hub of a smurfing ring that is its best ring, and
\* its evidence holds cash_out.
CashOutInSmurfing(a, i) ==
    /\ BestOf(a, i)
    /\ rings[i].pattern_type = "smurfing"
    /\ rings[i].member_accounts[1] # a
    /\ <<a, "cash_out">> \in evidence

\* C25: a non-hub account whose best ring is a smurfing ring and whose
\* evidence holds cash_out is scored risk + 1.7, rounded and clamped, without
\* jitter, whichever detector recorded the tag.
C25_CashOutScore ==
    pc = "scored" =>
        \A a \in DOMAIN accountScores : \A i \in DOMAIN rings :
            CashOutInSmurfing(a, i) =>
                accountScores[a].score = Min2(1000, rings[i].risk_score + 17)

\* A scored sender of a smurfing ring that detectShellChains, not
\* detectSmurfing, tagged cash_out as the end of a chain, its score below
\* the clamp.
C25_Witness ==
    /\ pc = "scored"
    /\ \E b \in DOMAIN accountScores : \E i \in DOMAIN rings :
           /\ CashOutInSmurfing(b, i)
           /\ <<b, "cash_out">> \in shells.evidenceByAccount
           /\ <<b, "cash_out">> \notin smurf.evidenceByAccount
           /\ accountScores[b].score = rings[i].risk_score + 17
           /\ accountScores[b].score < 1000

\* The transactions from a to b, in time order.
PairTxs(a, b) == SelectSeq(txs, LAMBDA x : x.sender_id = a /\ x.receiver_id = b)

\* The first timestamp and twice the median amount of the edge from a to b.
FirstT(a, b) == PairTxs(a, b)[1].t
PairMedian2(a, b) == median2([i \in DOMAIN PairTxs(a, b) |-> PairTxs(a, b)[i].amount])

\* Edge t2, a2 follows edge t1, a1 at most an hour before it and at most a
\* day from it, with medians, where both positive, of ratio at most 1.35.
Follows(t1, a1, t2, a2) ==
    /\ t2 + 3600 >= t1
    /\ t2 - t1 <= 24 * 3600
    /\ t1 - t2 <= 24 * 3600
    /\ (a1 > 0 /\ a2 > 0) => 100 * Max2(a1, a2) <= 135 * Min2(a1, a2)

\* C26: in every ring detectShellChains emits, each edge of the path follows
\* the edge before it: its first transaction is at most an hour earlier and
\* at most 24 hours away, and the median amounts of the two edges, when both
\* positive, have a ratio of at most 1.35.
C26_ConsecutiveEdges ==
    pc = "shells" =>
        \A k \in DOMAIN shells.rings :
            LET m == shells.rings[k].member_accounts
            IN \A i \in 2..(Len(m) - 1) :
                  Follows(FirstT(m[i - 1], m[i]), PairMedian2(m[i - 1], m[i]),
                          FirstT(m[i], m[i + 1]), PairMedian2(m[i], m[i + 1]))

\* The emitted rings that hold account a.
EmittedRingsOf(a) ==
    {i \in DOMAIN out.fraud_rings : a \in Range(out.fraud_rings[i].member_accounts)}

\* Ring m of fraud_rings is, among the emitted rings that hold a, one of the
\* largest risk and, among those, the one of the smallest ring_id.
TopRing(a, m) ==
    /\ m \in EmittedRingsOf(a)
    /\ \A j \in EmittedRingsOf(a) \ {m} :
          \/ out.fraud_rings[j].risk_score < out.fraud_rings[m].risk_score
          \/ (out.fraud_rings[j].risk_score = out.fraud_rings[m].risk_score
              /\ StrLess(out.fraud_rings[m].ring_id, out.fraud_rings[j].ring_id))

\* C27: the ring_id emitted for an account is that of an emitted fraud ring
\* that holds the account and has the largest risk among the emitted rings
\* that hold it, the smallest ring_id deciding between rings of equal risk.
C27_RingIdOfTopRing ==
    pc = "done" =>
        \A k \in DOMAIN out.suspicious_accounts :
            LET e == out.suspicious_accounts[k]
            IN EmittedRingsOf(e.account_id) # {} =>
                  \E m \in DOMAIN out.fraud_rings :
                      /\ TopRing(e.account_id, m)
                      /\ e.ring_id = out.fraud_rings[m].ring_id

\* A final document with a flagged account in two emitted rings of the same
\* risk, emitted with the smaller of the two ring ids.
C27_Witness ==
    /\ pc = "done"
    /\ \E k \in DOMAIN out.suspicious_accounts :
           LET e == out.suspicious_accounts[k]
           IN \E m, j \in EmittedRingsOf(e.account_id) :
                 /\ m < j
                 /\ out.fraud_rings[m].risk_score = out.fraud_rings[j].risk_score
                 /\ TopRing(e.account_id, m)
                 /\ e.ring_id = out.fraud_rings[m].ring_id

\* The list without the later repetitions of its entries.
WithoutRepeats(list) ==
    LET idx == {i \in DOMAIN list : \A j \in 1..(i - 1) : list[j] # list[i]}
    IN [k \in 1..Cardinality(idx) |-> list[Nth(idx, k)]]

\* The members of the smurfing ring of hub: the hub, the senders of its
\* window ascending, the receivers of its window not yet listed ascending,
\* the cash-out account if there is one not yet listed.
HubFirst(hub) ==
    LET bIn  == bestUniqueWindow(g.txIn[hub], "sender_id")
        bOut == bestUniqueWindow(g.txOut[hub], "receiver_id")
        cash == CashScan(g, bOut.counterparties, Min2(bIn.minT, bOut.minT),
                         Max2(bIn.maxT, bOut.maxT))
        s    == bIn.counterparties \ {hub}
        r    == bOut.counterparties \ (s \cup {hub})
    IN <<hub>> \o SortIds(s) \o SortIds(r)
       \o (IF cash = "" \/ cash \in s \cup r \cup {hub} THEN <<>> ELSE <<cash>>)

\* C28: no emitted fraud ring lists an account twice; the members of a cycle
\* ring ascend; the members of a smurfing or layered_shell ring are a
\* detector's list without its later repetitions, a smurfing ring listing
\* the hub, then the window's senders ascending, then the window's receivers
\* not yet listed ascending, then the cash-out account if found and not yet
\* listed.
C28_MemberLists ==
    pc = "done" =>
        \A k \in DOMAIN out.fraud_rings :
            LET m  == out.fraud_rings[k].member_accounts
                pt == out.fraud_rings[k].pattern_type
            IN /\ \A i, j \in DOMAIN m : i # j => m[i] # m[j]
               /\ pt = "cycle" => \A i, j \in DOMAIN m : i < j => IdLess(m[i], m[j])
               /\ pt # "cycle" =>
                     \E c \in DOMAIN Candidates :
                         /\ Candidates[c].pattern_type = pt
                         /\ m = WithoutRepeats(Candidates[c].member_accounts)
               /\ pt = "smurfing" => m = HubFirst(m[1])

\* A final document with a smurfing ring whose detector listed an account
\* both as a sender and as a receiver, and whose cash-out account is one of
\* the senders, so that neither is listed again.
C28_Witness ==
    /\ pc = "done"
    /\ \E k \in DOMAIN out.fraud_rings : \E c \in DOMAIN smurf.rings :
           /\ out.fraud_rings[k].pattern_type = "smurfing"
           /\ out.fraud_rings[k].member_accounts
              = WithoutRepeats(smurf.rings[c].member_accounts)
           /\ Len(smurf.rings[c].member_accounts)
              > Len(out.fraud_rings[k].member_accounts)
           /\ \E a \in Range(smurf.rings[c].member_accounts) :
                  /\ <<a, "cash_out">> \in smurf.evidenceByAccount
                  /\ <<a, "smurfing_fan_in">> \in smurf.evidenceByAccount

\* C29: applyWinModeScoring leaves every account that is in no ring with
\* score 0 and no tag, whatever the evidence holds for it, leaves ringId null
\* for every account, and changes neither the ring list nor the evidence.
C29_ScoringFrame ==
    [][(pc = "merged" /\ pc' = "scored") =>
          /\ rings' = rings
          /\ evidence' = evidence
          /\ \A a \in DOMAIN accountScores' :
                /\ accountScores'[a].ringId = Null
                /\ (\A i \in DOMAIN rings : a \notin Range(rings[i].member_accounts))
                   => /\ accountScores'[a].score = 0
                      /\ accountScores'[a].patterns = {}]_vars

\* Scored accounts, one of them in no ring of the list, with evidence tags,
\* score 0 and no tag of its own, beside a member of a ring with a score.
C29_Witness ==
    /\ pc = "scored"
    /\ \E a, b \in DOMAIN accountScores :
           /\ RingsOf(a) = {}
           /\ EvGet(evidence, a) # {}
           /\ accountScores[a].score = 0
           /\ accountScores[a].patterns = {}
           /\ RingsOf(b) # {}
           /\ accountScores[b].score > 0

\* No two rings of the merged list have the same pattern type and the same
\* set of members.
DistinctMerged ==
    \A i, j \in DOMAIN rings :
        (/\ i # j
         /\ rings[i].pattern_type = rings[j].pattern_type)
        => Range(rings[i].member_accounts) # Range(rings[j].member_accounts)

\* C30: no two rings mergeRings returns have the same pattern type and the
\* same set of members, so the dedup by signature discards none of them:
\* fraud_rings has as many rings as mergeRings returned.
C30_DedupDiscardsNone ==
    pc = "done" =>
        /\ DistinctMerged
        /\ Len(out.fraud_rings) = Len(rings)

====
